---------------------------- MODULE Spec2Model ----------------------------
(***************************************************************************)
(* A model of the CSS parser of JamesErrington/css-parser (Go).            *)
(*                                                                         *)
(* The program is a pipeline: bytes -> code points (decode_byte_stream,    *)
(* preprocess_input_stream) -> tokens (Tokenizer) -> rules (TokenStream).  *)
(* Each stage is modelled from src/unnamed/part_000 and is run by its own  *)
(* specification:                                                          *)
(*   SpecDecode       decode_byte_stream on byte buffers                   *)
(*   SpecPreprocess   preprocess_input_stream on byte buffers              *)
(*   SpecTokenize     Tokenizer.Tokenize on code point sequences           *)
(*   SpecString       Tokenizer.Tokenize on quoted strings                 *)
(*   SpecOpenString   Tokenizer.Tokenize on strings that nothing closes    *)
(*   SpecNumber       Tokenizer.Tokenize on numbers                        *)
(*   SpecHyphen       Tokenizer.Tokenize on inputs around a hyphen-minus   *)
(*   SpecTokens       Tokenizer.Tokenize on short inputs of many kinds     *)
(*   SpecTokenStream  the TokenStream cursor operations                    *)
(*   SpecSimpleBlock  TokenStream.consume_simple_block                     *)
(*   SpecDeclaration  TokenStream.consume_declaration                      *)
(*   SpecRemnants     TokenStream.consume_bad_declaration_remnants         *)
(*   SpecParse        TokenStream.consume_stylesheet_contents              *)
(* Code points and bytes are integers; strings are sequences of code       *)
(* points.                                                                 *)
(***************************************************************************)
EXTENDS Integers, Sequences, FiniteSets, TLC

VARIABLES
    \* decode_byte_stream: the buffer, the loop index i, the runes decoded so
    \* far, and "running" | "returned" | "fatal" (log.Fatalf) | "filtered"
    \* (preprocess_input_stream has returned input)
    bytes, di, result, dstatus,
    \* Tokenizer: input, index; Tokenize's token list; "running" | "returned" |
    \* "fatal" (log.Fatal)
    input, index, tokens, tstatus,
    \* TokenStream: the cursor (tokens, length, index, marked_indexes)
    ts,
    \* the parser's call stack (one frame per active consume_* call), the value
    \* the last call returned, and "start" | "running" | "done" | "panic"
    stack, ret, pstatus,
    \* the last operation performed (history, read only by the properties)
    ev

decVars == <<bytes, di, result, dstatus>>
tokVars == <<input, index, tokens, tstatus>>
parVars == <<ts, stack, ret, pstatus, ev>>
vars == <<bytes, di, result, dstatus, input, index, tokens, tstatus,
          ts, stack, ret, pstatus, ev>>

\* All sequences over S of length 0..n
RECURSIVE SeqsUpTo(_, _)
SeqsUpTo(S, n) ==
    IF n = 0 THEN {<<>>}
    ELSE LET shorter == SeqsUpTo(S, n - 1)
         IN shorter \cup {Append(s, x) : s \in {t \in shorter : Len(t) = n - 1}, x \in S}

Last(s) == s[Len(s)]
Front(s) == SubSeq(s, 1, Len(s) - 1)

---------------------------------------------------------------------------
(* Code point constants                                                    *)

EOF_CHAR == -1
NULL_CHAR == 0
REPLACEMENT_CHAR == 65533
LINE_FEED_CHAR == 10
CARRIAGE_RETURN_CHAR == 13
FORM_FEED_CHAR == 12
FORWARD_SLASH_CHAR == 47
BACKWARD_SLASH_CHAR == 92
ASTERISK_CHAR == 42
TAB_CHAR == 9
SPACE_CHAR == 32
QUOTATION_MARK_CHAR == 34
APOSTROPHE_CHAR == 39
NUMBER_SIGN_CHAR == 35
LOW_LINE_CHAR == 95
HYPHEN_MINUS_CHAR == 45
OPEN_PAREN_CHAR == 40
CLOSE_PAREN_CHAR == 41
OPEN_SQUARE_CHAR == 91
CLOSE_SQUARE_CHAR == 93
OPEN_CURLY_CHAR == 123
CLOSE_CURLY_CHAR == 125
PLUS_SIGN_CHAR == 43
FULL_STOP_CHAR == 46
LOWER_E_CHAR == 101
UPPER_E_CHAR == 69
LOWER_U_CHAR == 117
UPPER_U_CHAR == 85
PERCENT_SIGN_CHAR == 37
COMMA_CHAR == 44
GREATER_THAN_CHAR == 62
LESS_THAN_CHAR == 60
BACKSPACE_CHAR == 8
LINE_TABULATION_CHAR == 11
SHIFT_OUT_CHAR == 14
INFORMATION_SEPARATOR_CHAR == 31
DELETE_CHAR == 127
COLON_CHAR == 58
SEMICOLON_CHAR == 59
EXCLAMATON_MARK_CHAR == 33
AT_CHAR == 64
MAX_CODE_POINT == 1114111
UTF_8_MULTIBYTE_START_MARKER == 192
UTF_8_MULTIBYTE_BODY_MARKER == 128

---------------------------------------------------------------------------
(* Decoder: decode_byte_stream                                             *)

\* Longest buffer decoded
MaxBytes == 4

\* 'A'; the continuation bytes 80, A9, BD, BF; the start bytes C3 (2 bytes),
\* EF (3 bytes) and F0 (4 bytes).  C3 A9 is U+00E9, EF BF BD is U+FFFD,
\* F0 A9 BD BF is U+29F7F.
ByteAlphabet == {65, 128, 169, 189, 191, 195, 239, 240}

\* b & mask, for a mask that keeps the byte's top bits (0xC0, 0x80)
TopBits(b, mask) == b - (b % (256 - mask))

is_multibyte_start(bite) ==
    TopBits(bite, UTF_8_MULTIBYTE_START_MARKER) = UTF_8_MULTIBYTE_START_MARKER

is_multibyte_body(bite) ==
    TopBits(bite, UTF_8_MULTIBYTE_BODY_MARKER) = UTF_8_MULTIBYTE_BODY_MARKER

\* Go's utf8.DecodeRune: the first rune of p and its width in bytes;
\* (RuneError, 1) when p does not start with a valid encoding, (RuneError, 0)
\* when p is empty.  Overlong forms, surrogates and values above U+10FFFF
\* are invalid.
RuneError == 65533

Utf8Width(b0) ==
    IF b0 < 128 THEN 1
    ELSE IF b0 >= 194 /\ b0 <= 223 THEN 2
    ELSE IF b0 >= 224 /\ b0 <= 239 THEN 3
    ELSE IF b0 >= 240 /\ b0 <= 244 THEN 4
    ELSE 0

\* the range the second byte must lie in, by first byte
Utf8SecondLo(b0) == IF b0 = 224 THEN 160 ELSE IF b0 = 240 THEN 144 ELSE 128
Utf8SecondHi(b0) == IF b0 = 237 THEN 159 ELSE IF b0 = 244 THEN 143 ELSE 191

DecodeRune(p) ==
    IF Len(p) < 1 THEN [r |-> RuneError, size |-> 0]
    ELSE LET b0 == p[1]
             w == Utf8Width(b0)
             cont(k) == p[k] >= 128 /\ p[k] <= 191
         IN  IF w = 1 THEN [r |-> b0, size |-> 1]
             ELSE IF w = 0 \/ Len(p) < w THEN [r |-> RuneError, size |-> 1]
             ELSE IF p[2] < Utf8SecondLo(b0) \/ p[2] > Utf8SecondHi(b0)
                  THEN [r |-> RuneError, size |-> 1]
             ELSE IF w = 2
                  THEN [r |-> (b0 % 32) * 64 + (p[2] % 64), size |-> 2]
             ELSE IF ~cont(3) THEN [r |-> RuneError, size |-> 1]
             ELSE IF w = 3
                  THEN [r |-> (b0 % 16) * 4096 + (p[2] % 64) * 64 + (p[3] % 64),
                        size |-> 3]
             ELSE IF ~cont(4) THEN [r |-> RuneError, size |-> 1]
             ELSE [r |-> (b0 % 8) * 262144 + (p[2] % 64) * 4096
                         + (p[3] % 64) * 64 + (p[4] % 64),
                   size |-> 4]

\* The inner loop (lines 143-151): the index after the run of bytes that
\* is_multibyte_body accepts, starting at 0-based index i
RECURSIVE BodyEnd(_, _)
BodyEnd(bs, i) ==
    IF i < Len(bs) /\ is_multibyte_body(bs[i + 1]) THEN BodyEnd(bs, i + 1) ELSE i

\* One iteration of the outer loop (lines 135-160)
DecodeStep ==
    /\ dstatus = "running"
    /\ di < Len(bytes)
    /\ LET bite == bytes[di + 1]
           i1 == di + 1
           i2 == IF is_multibyte_start(bite) THEN BodyEnd(bytes, i1) ELSE i1
           code_point == SubSeq(bytes, di + 1, i2)
           char == DecodeRune(code_point).r
       IN  /\ di' = i2
           /\ IF char = RuneError
              THEN dstatus' = "fatal" /\ result' = result
              ELSE dstatus' = "running" /\ result' = Append(result, char)
    /\ UNCHANGED <<bytes, tokVars, parVars>>

\* The loop condition fails: return result (line 162)
DecodeReturn ==
    /\ dstatus = "running"
    /\ di >= Len(bytes)
    /\ dstatus' = "returned"
    /\ UNCHANGED <<bytes, di, result, tokVars, parVars>>

IdleTok == input = <<>> /\ index = -1 /\ tokens = <<>> /\ tstatus = "idle"
IdlePar ==
    /\ ts = [tokens |-> <<>>, length |-> 0, index |-> 0, marked_indexes |-> <<>>]
    /\ stack = <<>> /\ ret = <<>> /\ pstatus = "idle" /\ ev = [op |-> "none"]
IdleDec == bytes = <<>> /\ di = 0 /\ result = <<>> /\ dstatus = "idle"

InitDecode ==
    /\ bytes \in SeqsUpTo(ByteAlphabet, MaxBytes)
    /\ di = 0 /\ result = <<>> /\ dstatus = "running"
    /\ IdleTok /\ IdlePar

NextDecode == DecodeStep \/ DecodeReturn

SpecDecode == InitDecode /\ [][NextDecode]_vars

---------------------------------------------------------------------------
(* Properties of the decoder                                               *)

\* The reference decoding of a UTF-8 buffer: the scalar values in order, or
\* <<-1>> appended where the buffer stops being valid UTF-8.  (The valid
\* encoding EF BF BD of U+FFFD has width 3; an invalid byte has width 1.)
RECURSIVE Utf8Scalars(_)
Utf8Scalars(bs) ==
    IF bs = <<>> THEN <<>>
    ELSE LET d == DecodeRune(bs)
         IN  IF d.r = RuneError /\ d.size < 3 THEN <<-1>>
             ELSE <<d.r>> \o Utf8Scalars(SubSeq(bs, d.size + 1, Len(bs)))

ValidUtf8(bs) == \A k \in 1..Len(Utf8Scalars(bs)) : Utf8Scalars(bs)[k] # -1

\* C1: every valid UTF-8 buffer is decoded without abort to exactly its
\* scalar values in input order (adjacent multi-byte characters and U+FFFD
\* included).
C1_ValidDecodes ==
    (ValidUtf8(bytes) /\ dstatus \in {"returned", "fatal"})
        => (dstatus = "returned" /\ result = Utf8Scalars(bytes))

\* C2: every buffer that is not valid UTF-8 aborts the decode: it never
\* returns a code point sequence.
C2_InvalidAborts ==
    (dstatus = "returned") => ValidUtf8(bytes)

---------------------------------------------------------------------------
(* Code point classes                                                      *)

is_newline(char) == char = LINE_FEED_CHAR

is_whitespace(char) == is_newline(char) \/ char = TAB_CHAR \/ char = SPACE_CHAR

is_digit(char) == char >= 48 /\ char <= 57

is_hex_digit(char) ==
    is_digit(char) \/ (char >= 65 /\ char <= 70) \/ (char >= 97 /\ char <= 102)

is_uppercase(char) == char >= 65 /\ char <= 90

is_lowercase(char) == char >= 97 /\ char <= 122

is_letter(char) == is_uppercase(char) \/ is_lowercase(char)

is_non_ascii(char) ==
    \/ char \in {183, 8204, 8205, 8255, 8256}
    \/ (char >= 192 /\ char <= 214)
    \/ (char >= 216 /\ char <= 246)
    \/ (char >= 248 /\ char <= 893)
    \/ (char >= 895 /\ char <= 8191)
    \/ (char >= 8304 /\ char <= 8591)
    \/ (char >= 11264 /\ char <= 12271)
    \/ (char >= 12289 /\ char <= 55295)
    \/ (char >= 63744 /\ char <= 64975)
    \/ (char >= 65008 /\ char <= 65533)
    \/ char >= 65536

is_ident_start(char) == is_letter(char) \/ is_non_ascii(char) \/ char = LOW_LINE_CHAR

is_ident(char) == is_ident_start(char) \/ is_digit(char) \/ char = HYPHEN_MINUS_CHAR

is_non_printable(char) ==
    \/ (char >= NULL_CHAR /\ char <= BACKSPACE_CHAR)
    \/ char = LINE_TABULATION_CHAR
    \/ (char >= SHIFT_OUT_CHAR /\ char <= INFORMATION_SEPARATOR_CHAR)
    \/ char = DELETE_CHAR

are_valid_escape(first, second) ==
    IF first # BACKWARD_SLASH_CHAR THEN FALSE ELSE ~is_newline(second)

are_start_ident(first, second, third) ==
    IF first = HYPHEN_MINUS_CHAR
    THEN is_ident_start(second) \/ second = HYPHEN_MINUS_CHAR
         \/ are_valid_escape(second, third)
    ELSE IF is_ident_start(first) THEN TRUE
    ELSE IF first = BACKWARD_SLASH_CHAR THEN are_valid_escape(first, second)
    ELSE FALSE

are_number(first, second, third) ==
    IF first = PLUS_SIGN_CHAR \/ first = HYPHEN_MINUS_CHAR
    THEN IF is_digit(second) THEN TRUE
         ELSE second = FULL_STOP_CHAR /\ is_digit(third)
    ELSE IF first = FULL_STOP_CHAR THEN is_digit(second)
    ELSE IF is_digit(first) THEN TRUE
    ELSE FALSE

\* ASCII lower-casing, and strings.EqualFold against an ASCII lower-case word
LowerRune(c) == IF is_uppercase(c) THEN c + 32 ELSE c
EqualFold(s, word) ==
    Len(s) = Len(word) /\ \A k \in 1..Len(s) : LowerRune(s[k]) = word[k]

STR_url == <<117, 114, 108>>
STR_important == <<105, 109, 112, 111, 114, 116, 97, 110, 116>>
STR_bang == <<33>>

---------------------------------------------------------------------------
(* float64 and the strconv conversions of consume_number.  A float64 is    *)
(* modelled by the decimal it stands for, 0.d1 d2 ... dn * 10^exp with d1  *)
(* and dn not 0 (no digits for zero), or by an infinity or NaN; rounding   *)
(* to 53 bits is left out, the ends of the range are kept.                 *)

Float64Zero(neg) == [class |-> "finite", neg |-> neg, digits |-> <<>>, exp |-> 0]

Float64Inf(neg) == [class |-> "inf", neg |-> neg, digits |-> <<>>, exp |-> 0]

Float64NaN == [class |-> "nan", neg |-> FALSE, digits |-> <<>>, exp |-> 0]

\* The digits of an ASCII digit string
DigitsOf(s) == [k \in 1..Len(s) |-> s[k] - 48]

RECURSIVE LeadingZeros(_)
LeadingZeros(ds) ==
    IF ds # <<>> /\ Head(ds) = 0 THEN 1 + LeadingZeros(Tail(ds)) ELSE 0

RECURSIVE StripTrailingZeros(_)
StripTrailingZeros(ds) ==
    IF ds # <<>> /\ ds[Len(ds)] = 0 THEN StripTrailingZeros(Front(ds)) ELSE ds

StripLeadingZeros(ds) == SubSeq(ds, LeadingZeros(ds) + 1, Len(ds))

\* 0.ds < 0.es, for digit strings that do not end with 0
RECURSIVE FractionLess(_, _)
FractionLess(ds, es) ==
    IF es = <<>> THEN FALSE
    ELSE IF ds = <<>> THEN TRUE
    ELSE IF Head(ds) # Head(es) THEN Head(ds) < Head(es)
    ELSE FractionLess(Tail(ds), Tail(es))

\* A decimal is out of float64's range from 2^1024 - 2^970 on, which is
\* 0.1797693134862315807937... * 10^309, and rounds to zero up to 2^-1075,
\* which is 0.2470328229206232720882... * 10^-323 (both to 22 digits)
Float64OverflowDigits ==
    <<1, 7, 9, 7, 6, 9, 3, 1, 3, 4, 8, 6, 2, 3, 1, 5, 8, 0, 7, 9, 3, 7>>
Float64UnderflowDigits ==
    <<2, 4, 7, 0, 3, 2, 8, 2, 2, 9, 2, 0, 6, 2, 3, 2, 7, 2, 0, 8, 8, 2>>

\* The float64 for 0.ds * 10^exp, ds with no zero at either end and not empty
Float64Round(neg, ds, exp) ==
    IF exp > 309 \/ (exp = 309 /\ ~FractionLess(ds, Float64OverflowDigits))
    THEN Float64Inf(neg)
    ELSE IF exp < -323 \/ (exp = -323 /\ ~FractionLess(Float64UnderflowDigits, ds))
    THEN Float64Zero(neg)
    ELSE [class |-> "finite", neg |-> neg, digits |-> ds, exp |-> exp]

\* The float64 for the digits all with the decimal point after the first
\* point of them; zeros is the number of zeros all starts with
Float64Of(neg, all, point, zeros) ==
    IF zeros = Len(all) THEN Float64Zero(neg)
    ELSE Float64Round(neg, StripTrailingZeros(SubSeq(all, zeros + 1, Len(all))),
                      point - zeros)

\* The sign a number text starts with, and the text after it
IsNegative(s) == s # <<>> /\ s[1] = HYPHEN_MINUS_CHAR
Unsigned(s) ==
    IF s # <<>> /\ s[1] \in {PLUS_SIGN_CHAR, HYPHEN_MINUS_CHAR} THEN Tail(s) ELSE s

\* Where the . of body is, Len(body) + 1 if there is none
PointOf(body) ==
    IF \E k \in 1..Len(body) : body[k] = FULL_STOP_CHAR
    THEN CHOOSE k \in 1..Len(body) : body[k] = FULL_STOP_CHAR
    ELSE Len(body) + 1

\* strconv.ParseFloat on sign, digits and at most one .: the value, and err
\* when there is no digit (syntax) or the value is out of range
ParseFloatOf(neg, all, point) ==
    [value |-> Float64Of(neg, all, point, LeadingZeros(all)),
     err |-> all = <<>> \/ Float64Of(neg, all, point, LeadingZeros(all)).class = "inf"]

ParseFloatAt(neg, body, dot) ==
    ParseFloatOf(neg, DigitsOf(SubSeq(body, 1, dot - 1) \o SubSeq(body, dot + 1, Len(body))),
                 dot - 1)

ParseFloat(s) == ParseFloatAt(IsNegative(s), Unsigned(s), PointOf(Unsigned(s)))

\* The digits of 2^63 - 1 and of 2^63
Int64MaxDigits == <<9, 2, 2, 3, 3, 7, 2, 0, 3, 6, 8, 5, 4, 7, 7, 5, 8, 0, 7>>
Int64MinDigits == <<9, 2, 2, 3, 3, 7, 2, 0, 3, 6, 8, 5, 4, 7, 7, 5, 8, 0, 8>>

\* math.Pow10(n) is +Inf for n > 308 and 0 for n < -323: an int of five
\* digits or more is kept as this one, which Pow10 takes no differently
Pow10Saturation == 10000

RECURSIVE DigitsValue(_)
DigitsValue(ds) == IF ds = <<>> THEN 0 ELSE 10 * DigitsValue(Front(ds)) + Last(ds)

\* strconv.ParseInt(s, 10, 0) on sign and digits, int being 64 bits wide: ds
\* is the digits without leading zeros
ParseIntOf(neg, body, ds) ==
    [value |-> (IF neg THEN -1 ELSE 1)
                 * (IF Len(ds) > 4 THEN Pow10Saturation ELSE DigitsValue(ds)),
     err |-> \/ body = <<>>
             \/ Len(ds) > 19
             \/ Len(ds) = 19
                /\ FractionLess(IF neg THEN Int64MinDigits ELSE Int64MaxDigits, ds)]

ParseInt(s) ==
    ParseIntOf(IsNegative(s), Unsigned(s), StripLeadingZeros(DigitsOf(Unsigned(s))))

\* value * math.Pow10(n), for a finite value
MulPow10(v, n) ==
    IF n > 308 THEN IF v.digits = <<>> THEN Float64NaN ELSE Float64Inf(v.neg)
    ELSE IF n < -323 \/ v.digits = <<>> THEN Float64Zero(v.neg)
    ELSE Float64Round(v.neg, v.digits, v.exp + n)

---------------------------------------------------------------------------
(* Tokens                                                                  *)

\* The numeric value of a token that has none: Go's zero float64
NoNumeric == Float64Zero(FALSE)

\* Token{kind: kind}: every other field has Go's zero value
Token(kind) ==
    [kind |-> kind, value |-> <<>>, numeric |-> NoNumeric, sign |-> <<>>,
     hash_flag |-> "HASH_UNRESTRICTED", type_flag |-> "TYPE_INTEGER",
     unit |-> <<>>]

TokenV(kind, value) == [Token(kind) EXCEPT !.value = value]

\* Token{}: Go's zero Token has kind 0, which is IDENT_TOKEN
ZeroToken == Token("IDENT_TOKEN")

---------------------------------------------------------------------------
(* Tokenizer: the reading primitives.  The Tokenizer's input is fixed      *)
(* during a run, so each consume_* method is an operator from (input,      *)
(* index) to the index it leaves and the value it returns.                 *)

peek_rune(inp, idx, number) ==
    LET i == idx + number
    IN  IF i < 0 \/ i >= Len(inp) THEN EOF_CHAR ELSE inp[i + 1]

current_rune(inp, idx) == peek_rune(inp, idx, 0)
next_rune(inp, idx) == peek_rune(inp, idx, 1)
second_rune(inp, idx) == peek_rune(inp, idx, 2)
third_rune(inp, idx) == peek_rune(inp, idx, 3)

starts_with_valid_escape(inp, idx) ==
    are_valid_escape(current_rune(inp, idx), next_rune(inp, idx))

starts_with_ident(inp, idx) ==
    are_start_ident(current_rune(inp, idx), next_rune(inp, idx), second_rune(inp, idx))

starts_with_number(inp, idx) ==
    are_number(current_rune(inp, idx), next_rune(inp, idx), second_rune(inp, idx))

\* The inner loop of consume_comments (lines 791-802), entered with the
\* opening /* consumed: the index after the closing */, or fatal at EOF
RECURSIVE comment_body(_, _)
comment_body(inp, idx) ==
    LET j == idx + 1
        char == current_rune(inp, j)
    IN  IF char = ASTERISK_CHAR /\ next_rune(inp, j) = FORWARD_SLASH_CHAR
        THEN [index |-> j + 2, fatal |-> FALSE]
        ELSE IF char = EOF_CHAR THEN [index |-> j, fatal |-> TRUE]
        ELSE comment_body(inp, j)

RECURSIVE consume_comments(_, _)
consume_comments(inp, idx) ==
    IF next_rune(inp, idx) = FORWARD_SLASH_CHAR /\ second_rune(inp, idx) = ASTERISK_CHAR
    THEN LET r == comment_body(inp, idx + 2)
         IN  IF r.fatal THEN r ELSE consume_comments(inp, r.index)
    ELSE [index |-> idx, fatal |-> FALSE]

\* strconv.ParseInt(digits, 16, 64) on 1 to 6 hex digits
HexDigitValue(c) ==
    IF is_digit(c) THEN c - 48 ELSE IF c >= 97 THEN c - 87 ELSE c - 55

RECURSIVE ParseHex(_)
ParseHex(digits) ==
    IF digits = <<>> THEN 0
    ELSE 16 * ParseHex(Front(digits)) + HexDigitValue(Last(digits))

\* utf16.IsSurrogate
IsSurrogate(r) == r >= 55296 /\ r < 57344

\* The loop of lines 876-882: how many of the next (at most `left`) code
\* points are hex digits
RECURSIVE hex_run(_, _, _)
hex_run(inp, idx, left) ==
    IF left > 0 /\ is_hex_digit(next_rune(inp, idx))
    THEN 1 + hex_run(inp, idx + 1, left - 1)
    ELSE 0

\* A faulty consume_escaped, which leaves the whitespace after the hex
\* digits unconsumed
consume_escaped_keeping_whitespace(inp, idx) ==
    LET j == idx + 1
        char == current_rune(inp, j)
    IN  IF is_hex_digit(char)
        THEN LET k == hex_run(inp, j, 5)
                 value == ParseHex(SubSeq(inp, j + 1, j + k + 1))
             IN  [index |-> j + k,
                  char |-> IF value = 0 \/ IsSurrogate(value) \/ value > MAX_CODE_POINT
                           THEN REPLACEMENT_CHAR ELSE value]
        ELSE IF char = EOF_CHAR THEN [index |-> j, char |-> REPLACEMENT_CHAR]
        ELSE [index |-> j, char |-> char]

consume_escaped(inp, idx) ==
    LET j == idx + 1
        char == current_rune(inp, j)
    IN  IF is_hex_digit(char)
        THEN LET k == hex_run(inp, j, 5)
                 digits == SubSeq(inp, j + 1, j + k + 1)
                 j2 == IF is_whitespace(next_rune(inp, j + k)) THEN j + k + 1 ELSE j + k
                 value == ParseHex(digits)
             IN  [index |-> j2,
                  char |-> IF value = 0 \/ IsSurrogate(value) \/ value > MAX_CODE_POINT
                           THEN REPLACEMENT_CHAR ELSE value]
        ELSE IF char = EOF_CHAR THEN [index |-> j, char |-> REPLACEMENT_CHAR]
        ELSE [index |-> j, char |-> char]

\* consume_string_token: the loop, with the token's value so far
RECURSIVE string_loop(_, _, _, _)
string_loop(inp, idx, ending, value) ==
    LET j == idx + 1
        char == current_rune(inp, j)
    IN  IF char = ending THEN [index |-> j, token |-> TokenV("STRING_TOKEN", value)]
        ELSE IF char = EOF_CHAR
             THEN [index |-> j, token |-> TokenV("STRING_TOKEN", value)]
        ELSE IF is_newline(char)
             THEN [index |-> j - 1, token |-> Token("BAD_STRING_TOKEN")]
        ELSE IF char = BACKWARD_SLASH_CHAR
             THEN LET next == next_rune(inp, j)
                  IN  IF next = EOF_CHAR THEN string_loop(inp, j, ending, value)
                      ELSE IF is_newline(next)
                           THEN string_loop(inp, j + 1, ending, value)
                      ELSE LET e == consume_escaped(inp, j)
                           IN  string_loop(inp, e.index, ending, Append(value, e.char))
        ELSE string_loop(inp, j, ending, Append(value, char))

\* A faulty consume_string_token, which makes a string that EOF ends a
\* <bad-string-token>
bad_string_at_eof(inp, r) ==
    IF r.index >= Len(inp) THEN [r EXCEPT !.token = Token("BAD_STRING_TOKEN")] ELSE r
consume_string_token_bad_at_eof(inp, idx, ending) ==
    bad_string_at_eof(inp, string_loop(inp, idx, ending, <<>>))

\* A faulty consume_string_token, which consumes the newline that ends a
\* <bad-string-token>
newline_consumed(r) ==
    IF r.token.kind = "BAD_STRING_TOKEN" THEN [r EXCEPT !.index = @ + 1] ELSE r
consume_string_token_consuming_newline(inp, idx, ending) ==
    newline_consumed(string_loop(inp, idx, ending, <<>>))

consume_string_token(inp, idx, ending) == string_loop(inp, idx, ending, <<>>)

consume_string_token_default(inp, idx) ==
    consume_string_token(inp, idx, current_rune(inp, idx))

RECURSIVE ident_loop(_, _, _)
ident_loop(inp, idx, res) ==
    LET j == idx + 1
        char == current_rune(inp, j)
    IN  IF is_ident(char) THEN ident_loop(inp, j, Append(res, char))
        ELSE IF starts_with_valid_escape(inp, j)
             THEN LET e == consume_escaped(inp, j)
                  IN  ident_loop(inp, e.index, Append(res, e.char))
        ELSE [index |-> j - 1, result |-> res]

consume_ident_sequence(inp, idx) == ident_loop(inp, idx, <<>>)

\* "While the next input code point is a digit, consume it": the index after
RECURSIVE digits_end(_, _)
digits_end(inp, idx) ==
    IF is_digit(next_rune(inp, idx)) THEN digits_end(inp, idx + 1) ELSE idx

\* consume_number, steps 6 and 7, for the results of ParseFloat on the number
\* part and of ParseInt on the exponent part: log.Fatal on either's err
consume_number_value(number, expo, exponent) ==
    [numeric |-> IF expo /\ ~number.err /\ ~exponent.err
                 THEN MulPow10(number.value, exponent.value)
                 ELSE number.value,
     fatal |-> number.err \/ (expo /\ exponent.err)]

\* consume_number's return value: i3 is the index after the number part
\* (the e, if any, is at i3 + 1), i6 the index after the exponent's digits
consume_number_result(inp, idx, sign, frac, i3, expo, i6) ==
    [index |-> IF expo THEN i6 ELSE i3,
     type_flag |-> IF frac \/ expo THEN "TYPE_NUMBER" ELSE "TYPE_INTEGER",
     sign |-> sign]
        @@ consume_number_value(ParseFloat(SubSeq(inp, idx + 2, i3 + 1)), expo,
                                ParseInt(IF expo THEN SubSeq(inp, i3 + 3, i6 + 1)
                                         ELSE <<>>))

\* consume_number, step 5 (lines 1005-1037): the exponent.  5.1 consumes
\* the e, 5.2 the sign, 5.3 the digits.
consume_number_exponent(inp, idx, sign, frac, i3) ==
    LET first == next_rune(inp, i3)
        second == second_rune(inp, i3)
        third == third_rune(inp, i3)
        lookahead == IF second = HYPHEN_MINUS_CHAR \/ second = PLUS_SIGN_CHAR THEN 3 ELSE 2
        expo == /\ (first = UPPER_E_CHAR \/ first = LOWER_E_CHAR)
                /\ IF lookahead = 2 THEN is_digit(second) ELSE is_digit(third)
        i5 == IF next_rune(inp, i3 + 1) \in {PLUS_SIGN_CHAR, HYPHEN_MINUS_CHAR}
              THEN i3 + 2 ELSE i3 + 1
    IN  consume_number_result(inp, idx, sign, frac, i3, expo, digits_end(inp, i5))

\* consume_number, step 4 (lines 993-1003): the fraction; i2 is the index
\* after the integer digits
consume_number_fraction(inp, idx, sign, i2) ==
    LET frac == next_rune(inp, i2) = FULL_STOP_CHAR /\ is_digit(second_rune(inp, i2))
    IN  consume_number_exponent(inp, idx, sign, frac,
                                IF frac THEN digits_end(inp, i2 + 1) ELSE i2)

\* consume_number, steps 2 and 3: the sign and the integer digits
consume_number(inp, idx) ==
    LET next == next_rune(inp, idx)
        signed == next = PLUS_SIGN_CHAR \/ next = HYPHEN_MINUS_CHAR
    IN  consume_number_fraction(inp, idx, IF signed THEN <<next>> ELSE <<>>,
                                digits_end(inp, IF signed THEN idx + 1 ELSE idx))

\* consume_numeric_token with the number consumed: n is consume_number's result
numeric_token_of(inp, n) ==
    LET i == n.index
    IN  IF are_start_ident(next_rune(inp, i), second_rune(inp, i), third_rune(inp, i))
        THEN LET u == consume_ident_sequence(inp, i)
             IN  [index |-> u.index, fatal |-> n.fatal,
                  token |-> [Token("DIMENSION_TOKEN") EXCEPT
                                !.numeric = n.numeric, !.type_flag = n.type_flag,
                                !.sign = n.sign, !.unit = u.result]]
        ELSE IF next_rune(inp, i) = PERCENT_SIGN_CHAR
             THEN [index |-> i + 1, fatal |-> n.fatal,
                   token |-> [Token("PERCENTAGE_TOKEN") EXCEPT !.numeric = n.numeric]]
        ELSE [index |-> i, fatal |-> n.fatal,
              token |-> [Token("NUMBER_TOKEN") EXCEPT
                            !.numeric = n.numeric, !.type_flag = n.type_flag,
                            !.sign = n.sign]]

consume_numeric_token(inp, idx) == numeric_token_of(inp, consume_number(inp, idx))

RECURSIVE consume_bad_url_remnants(_, _)
consume_bad_url_remnants(inp, idx) ==
    LET j == idx + 1
        char == current_rune(inp, j)
    IN  IF char = CLOSE_PAREN_CHAR \/ char = EOF_CHAR THEN j
        ELSE IF starts_with_valid_escape(inp, j)
             THEN consume_bad_url_remnants(inp, consume_escaped(inp, j).index)
        ELSE consume_bad_url_remnants(inp, j)

\* "Consume as much whitespace as possible": the index after
RECURSIVE whitespace_end(_, _)
whitespace_end(inp, idx) ==
    IF is_whitespace(next_rune(inp, idx)) THEN whitespace_end(inp, idx + 1) ELSE idx

RECURSIVE url_loop(_, _, _)
url_loop(inp, idx, value) ==
    LET j == idx + 1
        char == current_rune(inp, j)
        bad(i) == [index |-> consume_bad_url_remnants(inp, i),
                   token |-> Token("BAD_URL_TOKEN")]
    IN  IF char = CLOSE_PAREN_CHAR THEN [index |-> j, token |-> TokenV("URL_TOKEN", value)]
        ELSE IF char = EOF_CHAR THEN [index |-> j, token |-> TokenV("URL_TOKEN", value)]
        ELSE IF is_whitespace(char)
             THEN LET w == whitespace_end(inp, j)
                  IN  IF next_rune(inp, w) \in {CLOSE_PAREN_CHAR, EOF_CHAR}
                      THEN [index |-> w + 1, token |-> TokenV("URL_TOKEN", value)]
                      ELSE bad(w)
        ELSE IF char \in {QUOTATION_MARK_CHAR, APOSTROPHE_CHAR, OPEN_PAREN_CHAR}
                \/ is_non_printable(char)
             THEN bad(j)
        ELSE IF char = BACKWARD_SLASH_CHAR
             THEN IF starts_with_valid_escape(inp, j)
                  THEN LET e == consume_escaped(inp, j)
                       IN  url_loop(inp, e.index, Append(value, e.char))
                  ELSE bad(j)
        ELSE url_loop(inp, j, Append(value, current_rune(inp, j)))

\* A faulty consume_url_token, which does not consume the whitespace first
consume_url_token_keeping_whitespace(inp, idx) == url_loop(inp, idx, <<>>)

consume_url_token(inp, idx) == url_loop(inp, whitespace_end(inp, idx), <<>>)

\* The loop of lines 1061-1063: "while the next two input code points are
\* whitespace, consume the next input code point"
RECURSIVE two_whitespace_end(_, _)
two_whitespace_end(inp, idx) ==
    IF is_whitespace(next_rune(inp, idx)) /\ is_whitespace(second_rune(inp, idx))
    THEN two_whitespace_end(inp, idx + 1)
    ELSE idx

\* consume_ident_like_token with the name consumed: s is
\* consume_ident_sequence's result
ident_like_token_of(inp, str, i) ==
    IF EqualFold(str, STR_url) /\ next_rune(inp, i) = OPEN_PAREN_CHAR
    THEN LET w == two_whitespace_end(inp, i + 1)
             first == next_rune(inp, w)
             second == second_rune(inp, w)
         IN  IF \/ first = QUOTATION_MARK_CHAR
                \/ first = APOSTROPHE_CHAR
                \/ (is_whitespace(first) /\ second = QUOTATION_MARK_CHAR)
                \/ (is_whitespace(first) /\ second = APOSTROPHE_CHAR)
             THEN [index |-> w, token |-> TokenV("FUNCTION_TOKEN", str)]
             ELSE consume_url_token(inp, w)
    ELSE IF next_rune(inp, i) = OPEN_PAREN_CHAR
         THEN [index |-> i + 1, token |-> TokenV("FUNCTION_TOKEN", str)]
    ELSE [index |-> i, token |-> TokenV("IDENT_TOKEN", str)]

ident_like_token_from(inp, s) == ident_like_token_of(inp, s.result, s.index)

consume_ident_like_token(inp, idx) ==
    ident_like_token_from(inp, consume_ident_sequence(inp, idx))

---------------------------------------------------------------------------
(* Tokenizer.ConsumeToken and Tokenizer.Tokenize                           *)

Delim(char) == TokenV("DELIM_TOKEN", <<char>>)

\* A faulty case U+002D, which tries the ident sequence before ->
hyphen_minus_case_ident_first(inp, j) ==
    IF starts_with_number(inp, j) THEN consume_numeric_token(inp, j - 1)
    ELSE IF starts_with_ident(inp, j) THEN consume_ident_like_token(inp, j - 1)
    ELSE IF next_rune(inp, j) = HYPHEN_MINUS_CHAR /\ second_rune(inp, j) = GREATER_THAN_CHAR
         THEN [index |-> j + 2, token |-> Token("CDC_TOKEN")]
    ELSE [index |-> j, token |-> Delim(current_rune(inp, j))]

\* ConsumeToken, case U+002D HYPHEN-MINUS: j is the index of the - consumed
hyphen_minus_case(inp, j) ==
    IF starts_with_number(inp, j) THEN consume_numeric_token(inp, j - 1)
    ELSE IF next_rune(inp, j) = HYPHEN_MINUS_CHAR /\ second_rune(inp, j) = GREATER_THAN_CHAR
         THEN [index |-> j + 2, token |-> Token("CDC_TOKEN")]
    ELSE IF starts_with_ident(inp, j) THEN consume_ident_like_token(inp, j - 1)
    ELSE [index |-> j, token |-> Delim(current_rune(inp, j))]

\* ConsumeToken after consume_comments: idx is the index consume_comments
\* left.  The cases are tried in the order of the switch.
consume_token_body(inp, idx) ==
    LET j == idx + 1
        char == current_rune(inp, j)
        next == next_rune(inp, j)
        second == second_rune(inp, j)
        third == third_rune(inp, j)
        tok(i, t) == [index |-> i, token |-> t]
    IN  IF is_whitespace(char)
        THEN tok(whitespace_end(inp, j), Token("WHITESPACE_TOKEN"))
        ELSE IF char = QUOTATION_MARK_CHAR THEN consume_string_token_default(inp, j)
        ELSE IF char = NUMBER_SIGN_CHAR
        THEN IF is_ident(next) \/ are_valid_escape(next, second)
             THEN LET s == consume_ident_sequence(inp, j)
                  IN  tok(s.index,
                          [Token("HASH_TOKEN") EXCEPT
                              !.hash_flag = IF are_start_ident(next, second, third)
                                            THEN "HASH_ID" ELSE "HASH_UNRESTRICTED",
                              !.value = s.result])
             ELSE tok(j, Delim(current_rune(inp, j)))
        ELSE IF char = APOSTROPHE_CHAR THEN consume_string_token_default(inp, j)
        ELSE IF char = OPEN_PAREN_CHAR THEN tok(j, Token("OPEN_PAREN_TOKEN"))
        ELSE IF char = CLOSE_PAREN_CHAR THEN tok(j, Token("CLOSE_PAREN_TOKEN"))
        ELSE IF char = PLUS_SIGN_CHAR
        THEN IF starts_with_number(inp, j) THEN consume_numeric_token(inp, j - 1)
             ELSE tok(j, Delim(char))
        ELSE IF char = COMMA_CHAR THEN tok(j, Token("COMMA_TOKEN"))
        ELSE IF char = HYPHEN_MINUS_CHAR
        THEN hyphen_minus_case(inp, j)
        ELSE IF char = FULL_STOP_CHAR
        THEN IF starts_with_number(inp, j) THEN consume_numeric_token(inp, j - 1)
             ELSE tok(j, Delim(current_rune(inp, j)))
        ELSE IF char = COLON_CHAR THEN tok(j, Token("COLON_TOKEN"))
        ELSE IF char = SEMICOLON_CHAR THEN tok(j, Token("SEMICOLON_TOKEN"))
        ELSE IF char = LESS_THAN_CHAR
        THEN IF next = EXCLAMATON_MARK_CHAR /\ second = HYPHEN_MINUS_CHAR
                /\ third = HYPHEN_MINUS_CHAR
             THEN tok(j + 3, Token("CDO_TOKEN"))
             ELSE tok(j, Delim(current_rune(inp, j)))
        ELSE IF char = AT_CHAR
        THEN IF are_start_ident(next, second, third)
             THEN LET s == consume_ident_sequence(inp, j)
                  IN  tok(s.index, TokenV("AT_KEYWORD_TOKEN", s.result))
             ELSE tok(j, Delim(current_rune(inp, j)))
        ELSE IF char = OPEN_SQUARE_CHAR THEN tok(j, Token("OPEN_SQUARE_TOKEN"))
        ELSE IF char = BACKWARD_SLASH_CHAR
        THEN IF starts_with_valid_escape(inp, j) THEN consume_ident_like_token(inp, j - 1)
             ELSE tok(j, Delim(current_rune(inp, j)))
        ELSE IF char = CLOSE_SQUARE_CHAR THEN tok(j, Token("CLOSE_SQUARE_TOKEN"))
        ELSE IF char = OPEN_CURLY_CHAR THEN tok(j, Token("OPEN_CURLY_TOKEN"))
        ELSE IF char = CLOSE_CURLY_CHAR THEN tok(j, Token("CLOSE_CURLY_TOKEN"))
        ELSE IF is_digit(char) THEN consume_numeric_token(inp, j - 1)
        \* unicode_ranges_allowed is false: u and U start an ident-like token
        ELSE IF char = UPPER_U_CHAR \/ char = LOWER_U_CHAR
        THEN consume_ident_like_token(inp, j - 1)
        ELSE IF is_ident_start(char) THEN consume_ident_like_token(inp, j - 1)
        ELSE IF char = EOF_CHAR THEN tok(j, Token("EOF_TOKEN"))
        ELSE tok(j, Delim(current_rune(inp, j)))

\* ConsumeToken with the comments consumed: c is consume_comments' result
token_after_comments(inp, c) ==
    IF c.fatal THEN [index |-> c.index, token |-> Token("EOF_TOKEN"), fatal |-> TRUE]
    ELSE consume_token_body(inp, c.index) @@ [fatal |-> FALSE]

\* ConsumeToken: the index it leaves, the token it returns, and whether it
\* ended the process (log.Fatal in consume_comments or in consume_number)
ConsumeToken(inp, idx) == token_after_comments(inp, consume_comments(inp, idx))

\* Tokenize's loop body for r, the result of ConsumeToken: append the token,
\* or return on EOF; log.Fatal ends the process
TokenizeStep(r, status) ==
    /\ status = IF r.fatal THEN "fatal"
                ELSE IF r.token.kind = "EOF_TOKEN" THEN "returned" ELSE "running"
    /\ index' = r.index
    /\ tokens' = IF status = "running" THEN Append(tokens, r.token) ELSE tokens
    /\ tstatus' = status
    /\ UNCHANGED <<input, decVars, parVars>>

\* Tokenize's loop: ConsumeToken returned a token that is not EOF
TokenizeAppend ==
    /\ tstatus = "running"
    /\ TokenizeStep(ConsumeToken(input, index), "running")

\* Tokenize's loop: ConsumeToken returned EOF, Tokenize returns tokens
TokenizeReturn ==
    /\ tstatus = "running"
    /\ TokenizeStep(ConsumeToken(input, index), "returned")

\* ConsumeToken reached EOF inside a comment, or a number strconv does not
\* take: log.Fatal ends the process
TokenizeFatal ==
    /\ tstatus = "running"
    /\ TokenizeStep(ConsumeToken(input, index), "fatal")

\* NewTokenizer(input): index starts at -1; Tokenize starts with no tokens
NewTokenizer ==
    /\ index = -1 /\ tokens = <<>> /\ tstatus = "running"

\* Longest input of SpecTokenize
MaxInput == 7

\* The characters / * a and space
CommentAlphabet == {47, 42, 97, 32}

InitTokenize ==
    /\ input \in SeqsUpTo(CommentAlphabet, MaxInput)
    /\ NewTokenizer
    /\ IdleDec /\ IdlePar

NextTokenize == TokenizeAppend \/ TokenizeReturn \/ TokenizeFatal

SpecTokenize == InitTokenize /\ [][NextTokenize]_vars

\* The number of code points consumed once the comments that start after
\* the first n code points are skipped: each comment runs from its /* to the
\* first */ after it.  -1 when a comment is not closed.
RECURSIVE CommentsEnd(_, _)
CommentsEnd(inp, n) ==
    IF n + 2 <= Len(inp) /\ inp[n + 1] = FORWARD_SLASH_CHAR /\ inp[n + 2] = ASTERISK_CHAR
    THEN LET closes == { p \in (n + 3)..(Len(inp) - 1) :
                            inp[p] = ASTERISK_CHAR /\ inp[p + 1] = FORWARD_SLASH_CHAR }
         IN  IF closes = {} THEN -1
             ELSE CommentsEnd(inp, 1 + CHOOSE p \in closes : \A o \in closes : p <= o)
    ELSE n

\* The number of code points of inp consumed when the index is idx
ConsumedBy(inp, idx) == IF idx + 1 > Len(inp) THEN Len(inp) ELSE idx + 1

\* C3: wherever ConsumeToken starts, consume_comments consumes exactly the
\* comments there, from each /* through the first */ after it, and nothing
\* more: the code point after the last */ is left as the next input code
\* point.
C3_CommentsConsumedExactly ==
    (tstatus = "running" /\ index < Len(input) /\ CommentsEnd(input, index + 1) # -1)
        => /\ ~consume_comments(input, index).fatal
           /\ ConsumedBy(input, consume_comments(input, index).index)
                 = CommentsEnd(input, index + 1)

\* Longest string body of SpecString
MaxBody == 5

\* The two quotes, the backslash, newline, space, and the hex digits d, 8, 0
StringAlphabet == {34, 39, 92, 10, 32, 100, 56, 48}

\* Bodies longer than MaxBody, with escapes of six hex digits and more:
\* \dddddd d, \0000d8 0, \00d800 ', \000000 space 8, \000080 space space ",
\* \800000 \ newline \ \, \8 space \ newline \" '
LongBodies ==
    { <<92, 100, 100, 100, 100, 100, 100, 100>>,
      <<92, 48, 48, 48, 48, 100, 56, 48>>,
      <<92, 48, 48, 100, 56, 48, 48, 39>>,
      <<92, 48, 48, 48, 48, 48, 48, 32, 56>>,
      <<92, 48, 48, 48, 48, 56, 48, 32, 32, 34>>,
      <<92, 56, 48, 48, 48, 48, 48, 92, 10, 92, 92>>,
      <<92, 56, 32, 92, 10, 92, 34, 39>> }

InitString ==
    /\ input \in { <<q>> \o body \o <<q>> :
                        q \in {QUOTATION_MARK_CHAR, APOSTROPHE_CHAR},
                        body \in SeqsUpTo(StringAlphabet, MaxBody) \cup LongBodies }
    /\ NewTokenizer
    /\ IdleDec /\ IdlePar

NextString == TokenizeAppend \/ TokenizeReturn

SpecString == InitString /\ [][NextString]_vars


\* The string body of SpecString's input, and its quote
StringBody == SubSeq(input, 2, Len(input) - 1)
StringQuote == input[1]

\* What a string body holds outside its escapes, a backslash escaping the
\* code point after it: "quote" for the quote q, "newline" for a newline,
\* "backslash" for a last backslash that escapes nothing in the body, and
\* "plain" otherwise
RECURSIVE BodyClass(_, _)
BodyClass(S, q) ==
    IF S = <<>> THEN "plain"
    ELSE IF Head(S) = BACKWARD_SLASH_CHAR
         THEN IF Len(S) = 1 THEN "backslash" ELSE BodyClass(SubSeq(S, 3, Len(S)), q)
    ELSE IF Head(S) = q THEN "quote"
    ELSE IF Head(S) = LINE_FEED_CHAR THEN "newline"
    ELSE BodyClass(Tail(S), q)

\* The number of hex digits, at most six, that S starts with
HexPrefix(S) ==
    CHOOSE k \in 0..6 :
        /\ k <= Len(S)
        /\ \A i \in 1..k : is_hex_digit(S[i])
        /\ (k < 6 /\ k < Len(S)) => ~is_hex_digit(S[k + 1])

\* The code point a hex escape stands for
EscapedCodePoint(value) ==
    IF value = 0 \/ (value >= 55296 /\ value <= 57343) \/ value > 1114111
    THEN 65533 ELSE value

\* 1 when whitespace ends the hex escape of k digits that S starts with
HexSpace(S, k) == IF k + 2 <= Len(S) /\ S[k + 2] \in {10, 9, 32} THEN 1 ELSE 0

\* A string body with every escape resolved: a hex escape (with the one
\* whitespace that may end it) is replaced by its code point, a backslash and
\* newline are removed, a backslash and another code point are replaced by
\* that code point
RECURSIVE Resolve(_)
Resolve(S) ==
    IF S = <<>> THEN <<>>
    ELSE IF Head(S) # BACKWARD_SLASH_CHAR THEN <<Head(S)>> \o Resolve(Tail(S))
    ELSE IF Len(S) = 1 THEN <<>>
    ELSE IF S[2] = LINE_FEED_CHAR THEN Resolve(SubSeq(S, 3, Len(S)))
    ELSE IF is_hex_digit(S[2])
         THEN LET k == HexPrefix(Tail(S))
                  ws == IF k + 2 <= Len(S) /\ S[k + 2] \in {10, 9, 32} THEN 1 ELSE 0
              IN  <<EscapedCodePoint(ParseHex(SubSeq(S, 2, k + 1)))>>
                      \o Resolve(SubSeq(S, k + 2 + ws, Len(S)))
    ELSE <<S[2]>> \o Resolve(SubSeq(S, 3, Len(S)))

\* C10: for a string body S with no unescaped quote and no raw newline, that
\* does not end with a backslash escaping the closing quote, tokenizing
\* quote S quote yields exactly one token, a String whose value is S with
\* every escape resolved, for either quote.
C10_StringResolved ==
    (tstatus = "returned" /\ BodyClass(StringBody, StringQuote) = "plain")
        => tokens = <<TokenV("STRING_TOKEN", Resolve(StringBody))>>

\* C10 as stated, for every body with no unescaped quote and no raw newline
C10_StringResolvedAnyBody ==
    (tstatus = "returned" /\ BodyClass(StringBody, StringQuote) \in {"plain", "backslash"})
        => tokens = <<TokenV("STRING_TOKEN", Resolve(StringBody))>>

\* A body with a hex escape, a backslash-newline and an escaped quote has
\* been tokenized
C10_Witness ==
    /\ tstatus = "returned"
    /\ BodyClass(StringBody, StringQuote) = "plain"
    /\ Len(tokens) = 1
    /\ \E i, j, k \in 1..(Len(StringBody) - 1) :
          /\ StringBody[i] = BACKWARD_SLASH_CHAR /\ is_hex_digit(StringBody[i + 1])
          /\ StringBody[j] = BACKWARD_SLASH_CHAR /\ StringBody[j + 1] = LINE_FEED_CHAR
          /\ StringBody[k] = BACKWARD_SLASH_CHAR /\ StringBody[k + 1] = StringQuote
          /\ i + 1 < j /\ j + 1 < k


---------------------------------------------------------------------------
(* Stack and TokenStream.  A TokenStream is the record of its fields; an   *)
(* operation is an operator from the stream to the stream it leaves.       *)

IsEmpty(items) == Len(items) = 0

Push(items, elem) == Append(items, elem)

\* Pop: the element, whether there was one, and the items left
Pop(items) ==
    IF IsEmpty(items) THEN [elem |-> 0, ok |-> FALSE, items |-> items]
    ELSE [elem |-> items[Len(items)], ok |-> TRUE,
          items |-> SubSeq(items, 1, Len(items) - 1)]

NewStack == <<>>

NewTokenStream(toks) ==
    [tokens |-> toks, length |-> Len(toks), index |-> 0, marked_indexes |-> NewStack]

next_token(t) ==
    IF t.index >= t.length THEN Token("EOF_TOKEN") ELSE t.tokens[t.index + 1]

empty(t) == next_token(t).kind = "EOF_TOKEN"

\* consume_token: the stream it leaves; the token it returns is next_token
consume_token(t) == [t EXCEPT !.index = @ + 1]

\* A faulty discard_token, which increments the index of an empty stream too
discard_token_when_empty(t) == [t EXCEPT !.index = @ + 1]

discard_token(t) == IF ~empty(t) THEN [t EXCEPT !.index = @ + 1] ELSE t

mark(t) == [t EXCEPT !.marked_indexes = Push(@, t.index)]

\* A faulty restore_mark, which sets the index and leaves the mark on the stack
restore_mark_keeping_mark(t) ==
    IF Pop(t.marked_indexes).ok
    THEN [t EXCEPT !.index = Pop(t.marked_indexes).elem]
    ELSE t

\* A faulty restore_mark, which pops the mark and leaves the index where it is
restore_mark_leaving_index(t) ==
    IF Pop(t.marked_indexes).ok
    THEN [t EXCEPT !.marked_indexes = Pop(t.marked_indexes).items]
    ELSE t

restore_mark(t) ==
    IF Pop(t.marked_indexes).ok
    THEN [t EXCEPT !.index = Pop(t.marked_indexes).elem,
                   !.marked_indexes = Pop(t.marked_indexes).items]
    ELSE t

\* A faulty discard_mark, which also sets the index to the popped value
discard_mark_moving_index(t) ==
    IF Pop(t.marked_indexes).ok
    THEN [t EXCEPT !.index = Pop(t.marked_indexes).elem,
                   !.marked_indexes = Pop(t.marked_indexes).items]
    ELSE t

discard_mark(t) == [t EXCEPT !.marked_indexes = Pop(@).items]

RECURSIVE discard_whitespace(_)
discard_whitespace(t) ==
    IF next_token(t).kind = "WHITESPACE_TOKEN"
    THEN discard_whitespace(discard_token(t))
    ELSE t

---------------------------------------------------------------------------
(* The token stream on its own: any operation, in any order                *)

\* Most marks held at once, and how far consume_token may run past the end
MaxMarks == 3
MaxOverrun == 2

\* Longest token list of SpecTokenStream
MaxStreamTokens == 3

StreamAlphabet == {Token("WHITESPACE_TOKEN"), Token("COLON_TOKEN")}

\* One operation op on the stream: ev keeps the operation and the stream
\* before it
StreamOp(op, after) ==
    /\ ts' = after
    /\ ev' = [op |-> op, before |-> ts]
    /\ UNCHANGED <<stack, ret, pstatus, decVars, tokVars>>

ConsumeTokenOp ==
    /\ pstatus = "stream"
    /\ ts.index < ts.length + MaxOverrun
    /\ StreamOp("consume_token", consume_token(ts))

DiscardTokenOp ==
    /\ pstatus = "stream"
    /\ StreamOp("discard_token", discard_token(ts))

MarkOp ==
    /\ pstatus = "stream"
    /\ Len(ts.marked_indexes) < MaxMarks
    /\ StreamOp("mark", mark(ts))

RestoreMarkOp ==
    /\ pstatus = "stream"
    /\ StreamOp("restore_mark", restore_mark(ts))

DiscardMarkOp ==
    /\ pstatus = "stream"
    /\ StreamOp("discard_mark", discard_mark(ts))

DiscardWhitespaceOp ==
    /\ pstatus = "stream"
    /\ StreamOp("discard_whitespace", discard_whitespace(ts))

\* next_token() and empty() read the stream and assign nothing
NextTokenOp ==
    /\ pstatus = "stream"
    /\ StreamOp("next_token", ts)

EmptyOp ==
    /\ pstatus = "stream"
    /\ StreamOp("empty", ts)

InitTokenStream ==
    /\ ts \in { NewTokenStream(toks) : toks \in SeqsUpTo(StreamAlphabet, MaxStreamTokens) }
    /\ stack = <<>> /\ ret = <<>> /\ pstatus = "stream" /\ ev = [op |-> "none"]
    /\ IdleDec /\ IdleTok

NextTokenStream ==
    \/ ConsumeTokenOp
    \/ DiscardTokenOp
    \/ MarkOp
    \/ RestoreMarkOp
    \/ DiscardMarkOp
    \/ DiscardWhitespaceOp
    \/ NextTokenOp
    \/ EmptyOp

SpecTokenStream == InitTokenStream /\ [][NextTokenStream]_vars

\* The operations that move the index forward, and a run of them
Advances == {"consume_token", "discard_token", "discard_whitespace"}

Advance(op, t) ==
    IF op = "consume_token" THEN consume_token(t)
    ELSE IF op = "discard_token" THEN discard_token(t)
    ELSE discard_whitespace(t)

RECURSIVE Run(_, _)
Run(ops, t) == IF ops = <<>> THEN t ELSE Run(Tail(ops), Advance(Head(ops), t))

\* Longest A and B of C4
MaxRun == 2

\* mark(); A; mark(); B; restore_mark() leaves the index A left, and a second
\* restore_mark() the index and the mark stack of t
RestoresLastInFirstOut(t, afterA, afterB) ==
    /\ restore_mark(afterB).index = afterA.index
    /\ restore_mark(restore_mark(afterB)).index = t.index
    /\ restore_mark(restore_mark(afterB)).marked_indexes = t.marked_indexes

\* C4: on a token stream in any state, mark() then restore_mark(), and
\* mark() then discard_mark(), leave the index and the mark stack as they
\* were; after mark(); A; mark(); B; restore_mark() the index is the one A
\* left and a second restore_mark() brings back the one before A, for runs A
\* and B of operations that read tokens; restore_mark() on an empty stack
\* changes nothing.
C4_MarksAreLastInFirstOut ==
    pstatus = "stream" =>
        /\ restore_mark(mark(ts)) = ts
        /\ discard_mark(mark(ts)) = ts
        /\ \A A, B \in SeqsUpTo(Advances, MaxRun) :
              RestoresLastInFirstOut(ts, Run(A, mark(ts)), Run(B, mark(Run(A, mark(ts)))))
        /\ IsEmpty(ts.marked_indexes) => restore_mark(ts) = ts

\* restore_mark has just popped the second of two marks, moving the index
\* back to where it was taken, past which the stream had read tokens
C4_Witness ==
    /\ pstatus = "stream"
    /\ ev.op = "restore_mark"
    /\ Len(ev.before.marked_indexes) = 2
    /\ ev.before.marked_indexes[1] < ev.before.marked_indexes[2]
    /\ ev.before.marked_indexes[2] < ev.before.index
    /\ ts.index = ev.before.marked_indexes[2]
    /\ ts.marked_indexes = <<ev.before.marked_indexes[1]>>


---------------------------------------------------------------------------
(* Rules, component values and declarations.  A Go string is the sequence  *)
(* of its code points.                                                     *)

\* Rule{kind: kind}
NewRule(kind) ==
    [kind |-> kind, name |-> <<>>, prelude |-> <<>>, decls |-> <<>>, children |-> <<>>]

\* ComponentValue{kind: PRESERVED_TOKEN, token: token}
PreservedToken(token) ==
    [kind |-> "PRESERVED_TOKEN", token |-> token, name |-> <<>>, value |-> <<>>]

\* ComponentValue{kind: SIMPLE_BLOCK, token: token}
NewSimpleBlock(token) ==
    [kind |-> "SIMPLE_BLOCK", token |-> token, name |-> <<>>, value |-> <<>>]

\* ComponentValue{kind: FUNCTION, name: name}: its token is Go's zero Token
NewFunction(name) ==
    [kind |-> "FUNCTION", token |-> ZeroToken, name |-> name, value |-> <<>>]

\* Declaration{}
NewDeclaration ==
    [name |-> <<>>, value |-> <<>>, important |-> FALSE, original_text |-> <<>>]

\* A faulty mirror, which pairs every opening bracket with )
mirror_to_paren(kind) ==
    IF kind \in {"OPEN_SQUARE_TOKEN", "OPEN_PAREN_TOKEN", "OPEN_CURLY_TOKEN"}
    THEN "CLOSE_PAREN_TOKEN"
    ELSE "panic"

\* mirror panics on any other kind; consume_simple_block has checked it
mirror(kind) ==
    IF kind = "OPEN_SQUARE_TOKEN" THEN "CLOSE_SQUARE_TOKEN"
    ELSE IF kind = "OPEN_PAREN_TOKEN" THEN "CLOSE_PAREN_TOKEN"
    ELSE IF kind = "OPEN_CURLY_TOKEN" THEN "CLOSE_CURLY_TOKEN"
    ELSE "panic"

\* Rule.is_valid and Declaration.is_valid
is_valid(r) == TRUE

HasPrefix(s, prefix) ==
    Len(s) >= Len(prefix) /\ SubSeq(s, 1, Len(prefix)) = prefix

STR_dashes == <<45, 45>>

\* The loop of looks_like_custom_property: the (0-based) index of the first
\* value from i on that is not whitespace, Len(prelude) if there is none
RECURSIVE first_non_whitespace(_, _)
first_non_whitespace(prelude, i) ==
    IF i < Len(prelude) /\ prelude[i + 1].token.kind = "WHITESPACE_TOKEN"
    THEN first_non_whitespace(prelude, i + 1)
    ELSE i

custom_property_at(prelude, i) ==
    IF i + 1 >= Len(prelude) THEN FALSE
    ELSE IF prelude[i + 1].token.kind = "IDENT_TOKEN"
            /\ HasPrefix(prelude[i + 1].token.value, STR_dashes)
         THEN prelude[i + 2].token.kind = "COLON_TOKEN"
    ELSE FALSE

looks_like_custom_property(prelude) ==
    custom_property_at(prelude, first_non_whitespace(prelude, 0))

is_custom_property_name(name) == FALSE

is_unicode_range(name) == FALSE

\* The loop of ends_with_important: going backwards from the (0-based) index
\* i, the index of the first value that is not whitespace, 0 if none is
RECURSIVE last_non_whitespace(_, _)
last_non_whitespace(list, i) ==
    IF i > 0 /\ list[i + 1].token.kind = "WHITESPACE_TOKEN"
    THEN last_non_whitespace(list, i - 1)
    ELSE i

important_at(list, i) ==
    IF i < 1 THEN FALSE
    ELSE IF list[i].token.kind = "DELIM_TOKEN" /\ list[i].token.value = STR_bang
         THEN list[i + 1].token.kind = "IDENT_TOKEN"
              /\ EqualFold(list[i + 1].token.value, STR_important)
    ELSE FALSE

\* A faulty ends_with_important, which takes a value of only two tokens not
\* to be important
ends_with_important_after_a_value(list) ==
    IF Len(list) < 3 THEN FALSE
    ELSE important_at(list, last_non_whitespace(list, Len(list) - 1))

ends_with_important(list) ==
    IF Len(list) < 2 THEN FALSE
    ELSE important_at(list, last_non_whitespace(list, Len(list) - 1))

contains_non_empty_block(list) == FALSE

extract_stop_token(params) == IF Len(params) > 0 THEN params[1] ELSE "EOF_TOKEN"

\* consume_declaration, step 6
strip_important(decl) ==
    IF ends_with_important(decl.value)
    THEN [decl EXCEPT !.value = SubSeq(@, 1, Len(@) - 2), !.important = TRUE]
    ELSE decl

\* A faulty strip_trailing_whitespace, which removes nothing
keep_trailing_whitespace(value) == value

\* consume_declaration, step 7
RECURSIVE strip_trailing_whitespace(_)
strip_trailing_whitespace(value) ==
    IF Len(value) > 0 /\ value[Len(value)].token.kind = "WHITESPACE_TOKEN"
    THEN strip_trailing_whitespace(SubSeq(value, 1, Len(value) - 1))
    ELSE value

---------------------------------------------------------------------------
(* The parser.  stack is Go's call stack, the running call last: a frame   *)
(* holds the function, where it is (pc), its parameters and its locals.    *)
(* An action runs the function of the top frame up to its next call or     *)
(* loop iteration or return; ret holds what the last return returned.      *)

Top == stack[Len(stack)]

stylesheet_contents_frame ==
    [fn |-> "consume_stylesheet_contents", pc |-> "loop", rules |-> <<>>]

at_rule_frame(nested) ==
    [fn |-> "consume_at_rule", pc |-> "start", nested |-> nested,
     rule |-> NewRule("AT_RULE")]

qualified_rule_frame(nested, params) ==
    [fn |-> "consume_qualified_rule", pc |-> "loop", nested |-> nested,
     stop_token |-> extract_stop_token(params), rule |-> NewRule("QUALIFIED_RULE")]

block_frame == [fn |-> "consume_block", pc |-> "start"]

block_contents_frame ==
    [fn |-> "consume_block_contents", pc |-> "loop", decls |-> <<>>, rules |-> <<>>]

declaration_frame(nested) ==
    [fn |-> "consume_declaration", pc |-> "start", nested |-> nested,
     decl |-> NewDeclaration]

bad_declaration_remnants_frame(nested) ==
    [fn |-> "consume_bad_declaration_remnants", pc |-> "loop", nested |-> nested]

component_value_list_frame(nested, params) ==
    [fn |-> "consume_component_value_list", pc |-> "loop", nested |-> nested,
     stop_token |-> extract_stop_token(params), values |-> <<>>]

component_value_frame == [fn |-> "consume_component_value", pc |-> "start"]

simple_block_frame ==
    [fn |-> "consume_simple_block", pc |-> "start", ending_token |-> "EOF_TOKEN",
     block |-> NewSimpleBlock(ZeroToken)]

function_frame ==
    [fn |-> "consume_function", pc |-> "start", function |-> NewFunction(<<>>)]

\* The running call goes on as frame, with the stream t
Goto(t, frame) ==
    /\ ts' = t
    /\ stack' = [stack EXCEPT ![Len(stack)] = frame]
    /\ UNCHANGED <<ret, pstatus>>

\* The running call, left as frame, calls callee
Call(t, frame, callee) ==
    /\ ts' = t
    /\ stack' = Append([stack EXCEPT ![Len(stack)] = frame], callee)
    /\ UNCHANGED <<ret, pstatus>>

\* The running call returns value to its caller; the parse is done when it
\* was the first call
Return(t, value) ==
    /\ ts' = t
    /\ stack' = SubSeq(stack, 1, Len(stack) - 1)
    /\ ret' = value
    /\ pstatus' = IF Len(stack) = 1 THEN "done" ELSE pstatus

\* panic(...)
Panic ==
    /\ pstatus' = "panic"
    /\ UNCHANGED <<ts, stack, ret>>

\* For each call on the stack, the index at which the turn of its loop that
\* it is in began, -1 before its first turn: the running call at the head of
\* its loop begins a turn
TurnStarts ==
    [k \in 1..Len(stack) |->
        IF k = Len(stack) /\ Top.pc = "loop" THEN ts.index
        ELSE IF "starts" \in DOMAIN ev /\ k <= Len(ev.starts) THEN ev.starts[k]
        ELSE -1]

\* ev keeps the function that ran last, its frame and the next token before
\* the step, whether it returned, and where the turns of the loops began
Event ==
    /\ ev' = [op |-> Top.fn, frame |-> Top, next |-> next_token(ts),
              returned |-> Len(stack') < Len(stack), starts |-> TurnStarts]
    /\ UNCHANGED <<decVars, tokVars>>

Running(fn) == pstatus = "running" /\ stack # <<>> /\ Top.fn = fn

\* A faulty consume_stylesheet_contents, which does not discard whitespace
consume_stylesheet_contents_keeping_whitespace(f, kind) ==
    IF f.pc = "loop"
    THEN IF kind = "WHITESPACE_TOKEN" THEN Goto(ts, f)
         ELSE IF kind = "EOF_TOKEN" THEN Return(ts, f.rules)
         ELSE IF kind \in {"CDO_TOKEN", "CDC_TOKEN"} THEN Goto(discard_token(ts), f)
         ELSE IF kind = "AT_KEYWORD_TOKEN"
              THEN Call(ts, [f EXCEPT !.pc = "after_rule"], at_rule_frame(FALSE))
         ELSE Call(ts, [f EXCEPT !.pc = "after_rule"], qualified_rule_frame(FALSE, <<>>))
    ELSE Goto(ts, [f EXCEPT !.pc = "loop",
                            !.rules = IF ret.ok THEN Append(@, ret.rule) ELSE @])

consume_stylesheet_contents(f, kind) ==
    IF f.pc = "loop"
    THEN IF kind = "WHITESPACE_TOKEN" THEN Goto(discard_token(ts), f)
         ELSE IF kind = "EOF_TOKEN" THEN Return(ts, f.rules)
         ELSE IF kind \in {"CDO_TOKEN", "CDC_TOKEN"} THEN Goto(discard_token(ts), f)
         ELSE IF kind = "AT_KEYWORD_TOKEN"
              THEN Call(ts, [f EXCEPT !.pc = "after_rule"], at_rule_frame(FALSE))
         ELSE Call(ts, [f EXCEPT !.pc = "after_rule"], qualified_rule_frame(FALSE, <<>>))
    ELSE Goto(ts, [f EXCEPT !.pc = "loop",
                            !.rules = IF ret.ok THEN Append(@, ret.rule) ELSE @])

StylesheetContentsStep ==
    /\ Running("consume_stylesheet_contents")
    /\ consume_stylesheet_contents(Top, next_token(ts).kind)
    /\ Event

\* A faulty consume_at_rule, which consumes the } that ends a nested at-rule
consume_at_rule_consuming_curly(f, kind) ==
    IF f.pc = "start"
    THEN IF kind # "AT_KEYWORD_TOKEN" THEN Panic
         ELSE Goto(consume_token(ts),
                   [f EXCEPT !.pc = "loop", !.rule.name = next_token(ts).value])
    ELSE IF f.pc = "loop"
    THEN IF kind \in {"SEMICOLON_TOKEN", "EOF_TOKEN"}
         THEN Return(discard_token(ts), [rule |-> f.rule, ok |-> is_valid(f.rule)])
         ELSE IF kind = "CLOSE_CURLY_TOKEN"
              THEN IF f.nested
                   THEN Return(consume_token(ts),
                               [rule |-> f.rule, ok |-> is_valid(f.rule)])
                   ELSE Goto(consume_token(ts),
                             [f EXCEPT !.rule.prelude =
                                          Append(@, PreservedToken(next_token(ts)))])
         ELSE IF kind = "OPEN_CURLY_TOKEN"
              THEN Call(ts, [f EXCEPT !.pc = "after_block"], block_frame)
         ELSE Call(ts, [f EXCEPT !.pc = "after_component"], component_value_frame)
    ELSE IF f.pc = "after_block"
    THEN Return(ts, [rule |-> [f.rule EXCEPT !.decls = ret.decls,
                                              !.children = ret.rules],
                     ok |-> is_valid(f.rule)])
    ELSE Goto(ts, [f EXCEPT !.pc = "loop", !.rule.prelude = Append(@, ret)])

consume_at_rule(f, kind) ==
    IF f.pc = "start"
    THEN IF kind # "AT_KEYWORD_TOKEN" THEN Panic
         ELSE Goto(consume_token(ts),
                   [f EXCEPT !.pc = "loop", !.rule.name = next_token(ts).value])
    ELSE IF f.pc = "loop"
    THEN IF kind \in {"SEMICOLON_TOKEN", "EOF_TOKEN"}
         THEN Return(discard_token(ts), [rule |-> f.rule, ok |-> is_valid(f.rule)])
         ELSE IF kind = "CLOSE_CURLY_TOKEN"
              THEN IF f.nested
                   THEN Return(ts, [rule |-> f.rule, ok |-> is_valid(f.rule)])
                   ELSE Goto(consume_token(ts),
                             [f EXCEPT !.rule.prelude =
                                          Append(@, PreservedToken(next_token(ts)))])
         ELSE IF kind = "OPEN_CURLY_TOKEN"
              THEN Call(ts, [f EXCEPT !.pc = "after_block"], block_frame)
         ELSE Call(ts, [f EXCEPT !.pc = "after_component"], component_value_frame)
    ELSE IF f.pc = "after_block"
    THEN Return(ts, [rule |-> [f.rule EXCEPT !.decls = ret.decls,
                                              !.children = ret.rules],
                     ok |-> is_valid(f.rule)])
    ELSE Goto(ts, [f EXCEPT !.pc = "loop", !.rule.prelude = Append(@, ret)])

AtRuleStep ==
    /\ Running("consume_at_rule")
    /\ consume_at_rule(Top, next_token(ts).kind)
    /\ Event

\* A faulty consume_qualified_rule, which consumes the stop token it ends at
consume_qualified_rule_consuming_stop(f, kind) ==
    IF f.pc = "loop"
    THEN IF kind = "EOF_TOKEN" \/ kind = f.stop_token
         THEN Return(discard_token(ts), [rule |-> f.rule, ok |-> FALSE])
         ELSE IF kind = "CLOSE_CURLY_TOKEN"
              THEN IF f.nested
                   THEN Return(ts, [rule |-> f.rule, ok |-> FALSE])
                   ELSE Goto(consume_token(ts),
                             [f EXCEPT !.rule.prelude =
                                          Append(@, PreservedToken(next_token(ts)))])
         ELSE IF kind = "OPEN_CURLY_TOKEN"
              THEN IF looks_like_custom_property(f.rule.prelude)
                   THEN IF f.nested
                        THEN Call(ts, [f EXCEPT !.pc = "after_discarded"],
                                  bad_declaration_remnants_frame(TRUE))
                        ELSE Call(ts, [f EXCEPT !.pc = "after_discarded"], block_frame)
                   ELSE Call(ts, [f EXCEPT !.pc = "after_block"], block_frame)
         ELSE Call(ts, [f EXCEPT !.pc = "after_component"], component_value_frame)
    ELSE IF f.pc = "after_discarded"
    THEN Return(ts, [rule |-> f.rule, ok |-> FALSE])
    ELSE IF f.pc = "after_block"
    THEN Return(ts, [rule |-> [f.rule EXCEPT !.decls = ret.decls,
                                              !.children = ret.rules],
                     ok |-> is_valid(f.rule)])
    ELSE Goto(ts, [f EXCEPT !.pc = "loop", !.rule.prelude = Append(@, ret)])

consume_qualified_rule(f, kind) ==
    IF f.pc = "loop"
    THEN IF kind = "EOF_TOKEN" \/ kind = f.stop_token
         THEN Return(ts, [rule |-> f.rule, ok |-> FALSE])
         ELSE IF kind = "CLOSE_CURLY_TOKEN"
              THEN IF f.nested
                   THEN Return(ts, [rule |-> f.rule, ok |-> FALSE])
                   ELSE Goto(consume_token(ts),
                             [f EXCEPT !.rule.prelude =
                                          Append(@, PreservedToken(next_token(ts)))])
         ELSE IF kind = "OPEN_CURLY_TOKEN"
              THEN IF looks_like_custom_property(f.rule.prelude)
                   THEN IF f.nested
                        THEN Call(ts, [f EXCEPT !.pc = "after_discarded"],
                                  bad_declaration_remnants_frame(TRUE))
                        ELSE Call(ts, [f EXCEPT !.pc = "after_discarded"], block_frame)
                   ELSE Call(ts, [f EXCEPT !.pc = "after_block"], block_frame)
         ELSE Call(ts, [f EXCEPT !.pc = "after_component"], component_value_frame)
    ELSE IF f.pc = "after_discarded"
    THEN Return(ts, [rule |-> f.rule, ok |-> FALSE])
    ELSE IF f.pc = "after_block"
    THEN Return(ts, [rule |-> [f.rule EXCEPT !.decls = ret.decls,
                                              !.children = ret.rules],
                     ok |-> is_valid(f.rule)])
    ELSE Goto(ts, [f EXCEPT !.pc = "loop", !.rule.prelude = Append(@, ret)])

QualifiedRuleStep ==
    /\ Running("consume_qualified_rule")
    /\ consume_qualified_rule(Top, next_token(ts).kind)
    /\ Event

consume_block(f, kind) ==
    IF f.pc = "start"
    THEN IF kind # "OPEN_CURLY_TOKEN" THEN Panic
         ELSE Call(discard_token(ts), [f EXCEPT !.pc = "after_contents"],
                   block_contents_frame)
    ELSE Return(discard_token(ts), ret)

BlockStep ==
    /\ Running("consume_block")
    /\ consume_block(Top, next_token(ts).kind)
    /\ Event

\* A faulty consume_block_contents, which leaves the mark of a declaration it
\* has taken
consume_block_contents_keeping_mark(f, kind) ==
    IF f.pc = "loop"
    THEN IF kind \in {"WHITESPACE_TOKEN", "SEMICOLON_TOKEN"}
         THEN Goto(discard_token(ts), f)
         ELSE IF kind \in {"EOF_TOKEN", "CLOSE_CURLY_TOKEN"}
              THEN Return(ts, [decls |-> f.decls, rules |-> f.rules])
         ELSE IF kind = "AT_KEYWORD_TOKEN"
              THEN Call(ts, [f EXCEPT !.pc = "after_rule"], at_rule_frame(TRUE))
         ELSE Call(mark(ts), [f EXCEPT !.pc = "after_declaration"],
                   declaration_frame(TRUE))
    ELSE IF f.pc = "after_declaration"
    THEN IF ret.ok
         THEN Goto(ts,
                   [f EXCEPT !.pc = "loop", !.decls = Append(@, ret.decl)])
         ELSE Call(restore_mark(ts), [f EXCEPT !.pc = "after_rule"],
                   qualified_rule_frame(TRUE, <<"SEMICOLON_TOKEN">>))
    ELSE Goto(ts, [f EXCEPT !.pc = "loop",
                            !.rules = IF ret.ok THEN Append(@, ret.rule) ELSE @])

consume_block_contents(f, kind) ==
    IF f.pc = "loop"
    THEN IF kind \in {"WHITESPACE_TOKEN", "SEMICOLON_TOKEN"}
         THEN Goto(discard_token(ts), f)
         ELSE IF kind \in {"EOF_TOKEN", "CLOSE_CURLY_TOKEN"}
              THEN Return(ts, [decls |-> f.decls, rules |-> f.rules])
         ELSE IF kind = "AT_KEYWORD_TOKEN"
              THEN Call(ts, [f EXCEPT !.pc = "after_rule"], at_rule_frame(TRUE))
         ELSE Call(mark(ts), [f EXCEPT !.pc = "after_declaration"],
                   declaration_frame(TRUE))
    ELSE IF f.pc = "after_declaration"
    THEN IF ret.ok
         THEN Goto(discard_mark(ts),
                   [f EXCEPT !.pc = "loop", !.decls = Append(@, ret.decl)])
         ELSE Call(restore_mark(ts), [f EXCEPT !.pc = "after_rule"],
                   qualified_rule_frame(TRUE, <<"SEMICOLON_TOKEN">>))
    ELSE Goto(ts, [f EXCEPT !.pc = "loop",
                            !.rules = IF ret.ok THEN Append(@, ret.rule) ELSE @])

BlockContentsStep ==
    /\ Running("consume_block_contents")
    /\ consume_block_contents(Top, next_token(ts).kind)
    /\ Event


\* consume_declaration, steps 2 to 5, with the name consumed and the
\* whitespace after it discarded: t is the stream then
declaration_after_name(f, t) ==
    IF next_token(t).kind = "COLON_TOKEN"
    THEN Call(discard_whitespace(discard_token(t)), [f EXCEPT !.pc = "after_list"],
              component_value_list_frame(f.nested, <<"SEMICOLON_TOKEN">>))
    ELSE Call(t, [f EXCEPT !.pc = "after_remnants"],
              bad_declaration_remnants_frame(f.nested))

\* consume_declaration, steps 8 and 9, for the declaration of steps 6 and 7
declaration_checked(decl) ==
    IF is_custom_property_name(decl.name)
    THEN Return(ts, [decl |-> decl, ok |-> is_valid(decl)])
    ELSE IF contains_non_empty_block(decl.value)
         THEN Return(ts, [decl |-> decl, ok |-> FALSE])
    ELSE IF is_unicode_range(decl.name) THEN Panic
    ELSE Return(ts, [decl |-> decl, ok |-> is_valid(decl)])

consume_declaration(f, kind) ==
    IF f.pc = "start"
    THEN IF kind = "IDENT_TOKEN"
         THEN declaration_after_name([f EXCEPT !.decl.name = next_token(ts).value],
                                     discard_whitespace(consume_token(ts)))
         ELSE Call(ts, [f EXCEPT !.pc = "after_remnants"],
                   bad_declaration_remnants_frame(f.nested))
    ELSE IF f.pc = "after_remnants"
    THEN Return(ts, [decl |-> f.decl, ok |-> FALSE])
    ELSE declaration_checked(
             [strip_important([f.decl EXCEPT !.value = ret])
                 EXCEPT !.value = strip_trailing_whitespace(@)])

DeclarationStep ==
    /\ Running("consume_declaration")
    /\ consume_declaration(Top, next_token(ts).kind)
    /\ Event

\* A faulty consume_bad_declaration_remnants, which returns once it has
\* discarded a } when nested is false
consume_bad_declaration_remnants_to_curly(f, kind) ==
    IF f.pc = "loop"
    THEN IF kind \in {"EOF_TOKEN", "SEMICOLON_TOKEN", "CLOSE_CURLY_TOKEN"}
         THEN Return(IF kind = "CLOSE_CURLY_TOKEN" /\ f.nested THEN ts
                     ELSE discard_token(ts), <<>>)
         ELSE Call(ts, [f EXCEPT !.pc = "after_component"], component_value_frame)
    ELSE Goto(ts, [f EXCEPT !.pc = "loop"])

consume_bad_declaration_remnants(f, kind) ==
    IF f.pc = "loop"
    THEN IF kind \in {"EOF_TOKEN", "SEMICOLON_TOKEN"}
         THEN Return(discard_token(ts), <<>>)
         ELSE IF kind = "CLOSE_CURLY_TOKEN"
              THEN IF f.nested THEN Return(ts, <<>>)
                   ELSE Goto(discard_token(ts), f)
         ELSE Call(ts, [f EXCEPT !.pc = "after_component"], component_value_frame)
    ELSE Goto(ts, [f EXCEPT !.pc = "loop"])

BadDeclarationRemnantsStep ==
    /\ Running("consume_bad_declaration_remnants")
    /\ consume_bad_declaration_remnants(Top, next_token(ts).kind)
    /\ Event

consume_component_value_list(f, kind) ==
    IF f.pc = "loop"
    THEN IF kind = "EOF_TOKEN" \/ kind = f.stop_token THEN Return(ts, f.values)
         ELSE IF kind = "CLOSE_CURLY_TOKEN" /\ f.nested THEN Return(ts, f.values)
         ELSE Call(ts, [f EXCEPT !.pc = "after_component"], component_value_frame)
    ELSE Goto(ts, [f EXCEPT !.pc = "loop", !.values = Append(@, ret)])

ComponentValueListStep ==
    /\ Running("consume_component_value_list")
    /\ consume_component_value_list(Top, next_token(ts).kind)
    /\ Event

\* "return ts.consume_simple_block()" and "return ts.consume_function()"
\* hand the callee's result on unchanged: the callee takes over the frame
\* A faulty consume_component_value, which takes an <ident-token> for the
\* start of a function
consume_component_value_ident_as_function(f, kind) ==
    IF kind \in {"OPEN_CURLY_TOKEN", "OPEN_SQUARE_TOKEN", "OPEN_PAREN_TOKEN"}
    THEN Goto(ts, simple_block_frame)
    ELSE IF kind \in {"FUNCTION_TOKEN", "IDENT_TOKEN"} THEN Goto(ts, function_frame)
    ELSE Return(consume_token(ts), PreservedToken(next_token(ts)))

consume_component_value(f, kind) ==
    IF kind \in {"OPEN_CURLY_TOKEN", "OPEN_SQUARE_TOKEN", "OPEN_PAREN_TOKEN"}
    THEN Goto(ts, simple_block_frame)
    ELSE IF kind = "FUNCTION_TOKEN" THEN Goto(ts, function_frame)
    ELSE Return(consume_token(ts), PreservedToken(next_token(ts)))

ComponentValueStep ==
    /\ Running("consume_component_value")
    /\ consume_component_value(Top, next_token(ts).kind)
    /\ Event

consume_simple_block(f, kind) ==
    IF f.pc = "start"
    THEN IF kind \notin {"OPEN_CURLY_TOKEN", "OPEN_SQUARE_TOKEN", "OPEN_PAREN_TOKEN"}
         THEN Panic
         ELSE Goto(discard_token(ts),
                   [f EXCEPT !.pc = "loop", !.ending_token = mirror(kind),
                             !.block = NewSimpleBlock(next_token(ts))])
    ELSE IF f.pc = "loop"
    THEN IF kind = "EOF_TOKEN" \/ kind = f.ending_token
         THEN Return(discard_token(ts), f.block)
         ELSE Call(ts, [f EXCEPT !.pc = "after_component"], component_value_frame)
    ELSE Goto(ts, [f EXCEPT !.pc = "loop", !.block.value = Append(@, ret)])

SimpleBlockStep ==
    /\ Running("consume_simple_block")
    /\ consume_simple_block(Top, next_token(ts).kind)
    /\ Event

consume_function(f, kind) ==
    IF f.pc = "start"
    THEN IF kind # "FUNCTION_TOKEN" THEN Panic
         ELSE Goto(consume_token(ts),
                   [f EXCEPT !.pc = "loop",
                             !.function = NewFunction(next_token(ts).value)])
    ELSE IF f.pc = "loop"
    THEN IF kind \in {"EOF_TOKEN", "CLOSE_PAREN_TOKEN"}
         THEN Return(discard_token(ts), f.function)
         ELSE Call(ts, [f EXCEPT !.pc = "after_component"], component_value_frame)
    ELSE Goto(ts, [f EXCEPT !.pc = "loop", !.function.value = Append(@, ret)])

FunctionStep ==
    /\ Running("consume_function")
    /\ consume_function(Top, next_token(ts).kind)
    /\ Event

\* A parser function called on the tokens toks
StartParser(toks, frame) ==
    /\ ts = NewTokenStream(toks)
    /\ stack = <<frame>>
    /\ ret = <<>>
    /\ pstatus = "running"
    /\ ev = [op |-> "none"]

---------------------------------------------------------------------------
(* consume_simple_block on its own                                         *)

\* Most tokens after the opening bracket
MaxBlockTokens == 4

OpenerKinds == {"OPEN_CURLY_TOKEN", "OPEN_SQUARE_TOKEN", "OPEN_PAREN_TOKEN"}

CloserKinds == {"CLOSE_CURLY_TOKEN", "CLOSE_SQUARE_TOKEN", "CLOSE_PAREN_TOKEN"}

\* The six brackets, the ident a and the function f(
BlockAlphabet ==
    { Token(k) : k \in OpenerKinds \cup CloserKinds }
        \cup {TokenV("IDENT_TOKEN", <<97>>), TokenV("FUNCTION_TOKEN", <<102>>)}

InitSimpleBlock ==
    /\ \E opener \in OpenerKinds, rest \in SeqsUpTo(BlockAlphabet, MaxBlockTokens) :
          StartParser(<<Token(opener)>> \o rest, simple_block_frame)
    /\ IdleDec /\ IdleTok

NextSimpleBlock == ComponentValueStep \/ SimpleBlockStep \/ FunctionStep

\* Go runs a call to its end: a step that can be taken is taken
SpecSimpleBlock ==
    InitSimpleBlock /\ [][NextSimpleBlock]_vars /\ WF_vars(NextSimpleBlock)

\* The closing bracket that pairs with an opening one
Closer(kind) ==
    CASE kind = "OPEN_CURLY_TOKEN" -> "CLOSE_CURLY_TOKEN"
      [] kind = "OPEN_SQUARE_TOKEN" -> "CLOSE_SQUARE_TOKEN"
      [] kind = "OPEN_PAREN_TOKEN" -> "CLOSE_PAREN_TOKEN"
      [] kind = "FUNCTION_TOKEN" -> "CLOSE_PAREN_TOKEN"

\* The tokens a component value was made from, each block and function
\* with its closing bracket
RECURSIVE Unparse(_)
UnparseAll(values) ==
    LET RECURSIVE Cat(_)
        Cat(k) == IF k = 0 THEN <<>> ELSE Cat(k - 1) \o Unparse(values[k])
    IN  Cat(Len(values))
Unparse(cv) ==
    IF cv.kind = "PRESERVED_TOKEN" THEN <<cv.token>>
    ELSE IF cv.kind = "SIMPLE_BLOCK"
         THEN <<cv.token>> \o UnparseAll(cv.value) \o <<Token(Closer(cv.token.kind))>>
    ELSE <<TokenV("FUNCTION_TOKEN", cv.name)>> \o UnparseAll(cv.value)
             \o <<Token("CLOSE_PAREN_TOKEN")>>

\* toks is the start of the tokens component values were made from, and all
\* that is missing is closing brackets: those of the blocks EOF closed
ConsumedAs(toks, unparsed) ==
    /\ Len(toks) <= Len(unparsed)
    /\ SubSeq(unparsed, 1, Len(toks)) = toks
    /\ \A k \in (Len(toks) + 1)..Len(unparsed) : unparsed[k].kind \in CloserKinds

\* No block or function of cv holds, as a preserved token of its own, the
\* bracket that closes it
RECURSIVE NoCloserInside(_)
NoCloserInside(cv) ==
    cv.kind # "PRESERVED_TOKEN" =>
        \A k \in 1..Len(cv.value) :
            /\ NoCloserInside(cv.value[k])
            /\ cv.value[k].kind = "PRESERVED_TOKEN"
                  => cv.value[k].token.kind #
                        Closer(IF cv.kind = "FUNCTION" THEN "FUNCTION_TOKEN"
                               ELSE cv.token.kind)

\* What consume_simple_block has returned, whenever it returns
SimpleBlockReturned ==
    (ev.op = "consume_simple_block" /\ ev.returned)
        => /\ ret.kind = "SIMPLE_BLOCK"
           /\ ev.next.kind \in {"EOF_TOKEN", Closer(ret.token.kind)}
           /\ ev.next.kind = "EOF_TOKEN" => ts.index = ts.length
           /\ NoCloserInside(ret)

\* What the first call of consume_simple_block has returned
SimpleBlockDone ==
    pstatus = "done"
        => /\ ret.token = ts.tokens[1]
           /\ ConsumedAs(SubSeq(ts.tokens, 1, ts.index), Unparse(ret))
           /\ Len(Unparse(ret)) > ts.index => ts.index = ts.length

\* C5: consume_simple_block, called with the next token an opening bracket,
\* terminates; the token it discards last is the mirror of the block's
\* opener, or the stream is at EOF; every token up to there is kept in the
\* block in order, a closing bracket of another kind as a preserved token.
C5_SimpleBlockTerminatesAtItsMirror ==
    /\ [](SimpleBlockReturned /\ SimpleBlockDone)
    /\ <>(pstatus = "done")

\* A block has returned that its mirror closed and that holds a closing
\* bracket of another kind as a preserved token
C5_Witness ==
    /\ pstatus = "done"
    /\ ev.next.kind = Closer(ret.token.kind)
    /\ \E k \in 1..Len(ret.value) :
          /\ ret.value[k].kind = "PRESERVED_TOKEN"
          /\ ret.value[k].token.kind \in CloserKinds


---------------------------------------------------------------------------
(* Tokenizer.Tokenize as a function of the input: the tokens, and whether  *)
(* log.Fatal ended the process                                             *)

RECURSIVE tokenize_loop(_, _, _)
tokenize_next(inp, toks, r) ==
    IF r.fatal THEN [tokens |-> toks, index |-> r.index, fatal |-> TRUE]
    ELSE IF r.token.kind = "EOF_TOKEN"
         THEN [tokens |-> toks, index |-> r.index, fatal |-> FALSE]
    ELSE tokenize_loop(inp, r.index, Append(toks, r.token))
tokenize_loop(inp, idx, toks) == tokenize_next(inp, toks, ConsumeToken(inp, idx))

Tokenize(inp) == tokenize_loop(inp, -1, <<>>)

---------------------------------------------------------------------------
(* consume_declaration on its own                                          *)

\* Longest token list of SpecDeclaration, the longer DeclarationTexts aside
MaxDeclTokens == 5

IdentA == TokenV("IDENT_TOKEN", <<97>>)
Bang == TokenV("DELIM_TOKEN", STR_bang)
Important == TokenV("IDENT_TOKEN", STR_important)

DeclAlphabet ==
    { IdentA, Bang, Important, Token("COLON_TOKEN"), Token("WHITESPACE_TOKEN"),
      Token("SEMICOLON_TOKEN"), Token("CLOSE_CURLY_TOKEN") }

\* color: red !important }     color: red !important;
\* a : a b!IMPORTANT           a : !Important;x
\* color: red ! important
DeclarationTexts ==
    { <<99, 111, 108, 111, 114, 58, 32, 114, 101, 100, 32, 33, 32,
        105, 109, 112, 111, 114, 116, 97, 110, 116>>,
      <<99, 111, 108, 111, 114, 58, 32, 114, 101, 100, 32, 33,
        105, 109, 112, 111, 114, 116, 97, 110, 116, 32, 125>>,
      <<99, 111, 108, 111, 114, 58, 32, 114, 101, 100, 32, 33,
        105, 109, 112, 111, 114, 116, 97, 110, 116, 59>>,
      <<97, 32, 58, 32, 97, 32, 98, 33, 73, 77, 80, 79, 82, 84, 65, 78, 84>>,
      <<97, 32, 58, 32, 33, 73, 109, 112, 111, 114, 116, 97, 110, 116, 59,
         120>> }

InitDeclaration ==
    /\ \E nested \in BOOLEAN :
       \E toks \in SeqsUpTo(DeclAlphabet, MaxDeclTokens)
                     \cup { Tokenize(text).tokens : text \in DeclarationTexts } :
          StartParser(toks, declaration_frame(nested))
    /\ IdleDec /\ IdleTok

NextDeclaration ==
    \/ DeclarationStep
    \/ BadDeclarationRemnantsStep
    \/ ComponentValueListStep
    \/ ComponentValueStep

SpecDeclaration == InitDeclaration /\ [][NextDeclaration]_vars

\* The position of the first token of toks from k on that is not whitespace
RECURSIVE SkipWhitespace(_, _)
SkipWhitespace(toks, k) ==
    IF k <= Len(toks) /\ toks[k].kind = "WHITESPACE_TOKEN"
    THEN SkipWhitespace(toks, k + 1)
    ELSE k

IsKind(toks, k, kind) == k <= Len(toks) /\ toks[k].kind = kind

IsBang(tok) == tok.kind = "DELIM_TOKEN" /\ tok.value = <<33>>

IsImportant(tok) ==
    /\ tok.kind = "IDENT_TOKEN"
    /\ Len(tok.value) = 9
    /\ \A i \in 1..9 :
          tok.value[i] \in {STR_important[i], STR_important[i] - 32}

\* toks starts name : value: the position of the value's first token, 0 when
\* toks does not start so
ValueStart(toks) ==
    IF IsKind(toks, 1, "IDENT_TOKEN") /\ IsKind(toks, SkipWhitespace(toks, 2), "COLON_TOKEN")
    THEN SkipWhitespace(toks, SkipWhitespace(toks, 2) + 1)
    ELSE 0

\* The position after the value that starts at k: that of the first ; from
\* there, or of the first } when nested, or the end
RECURSIVE ValueEnd(_, _, _)
ValueEnd(toks, k, nested) ==
    IF k > Len(toks) \/ toks[k].kind = "SEMICOLON_TOKEN"
       \/ (nested /\ toks[k].kind = "CLOSE_CURLY_TOKEN")
    THEN k
    ELSE ValueEnd(toks, k + 1, nested)

\* The tokens of the declaration's value, () when there is no declaration
ValueTokens(toks, nested) ==
    IF ValueStart(toks) = 0 THEN <<>>
    ELSE SubSeq(toks, ValueStart(toks), ValueEnd(toks, ValueStart(toks), nested) - 1)

RECURSIVE WithoutTrailingWhitespace(_)
WithoutTrailingWhitespace(toks) ==
    IF toks # <<>> /\ toks[Len(toks)].kind = "WHITESPACE_TOKEN"
    THEN WithoutTrailingWhitespace(SubSeq(toks, 1, Len(toks) - 1))
    ELSE toks

AsPreservedTokens(toks) == [k \in 1..Len(toks) |-> PreservedToken(toks[k])]

\* The value is the marker alone: ! and important and nothing else
IsMarker(value) == Len(value) = 2 /\ IsBang(value[1]) /\ IsImportant(value[2])

\* C8: for a declaration whose entire value is the !important marker, with
\* nothing before the ! and nothing after important, consume_declaration
\* strips the marker as it does after a value: the Declaration it returns
\* has important = true and an empty value.
C8_BareMarkerIsStripped ==
    (pstatus = "done" /\ IsMarker(ValueTokens(ts.tokens, ev.frame.nested)))
        => /\ ret.ok
           /\ ret.decl.name = ts.tokens[1].value
           /\ ret.decl.important
           /\ ret.decl.value = <<>>

\* C8 as stated: the marker is not stripped, important is false and the
\* value still holds the ! and the important
C8_BareMarkerIsKept ==
    (pstatus = "done" /\ IsMarker(ValueTokens(ts.tokens, ev.frame.nested)))
        => /\ ret.ok
           /\ ~ret.decl.important
           /\ \E k \in 1..Len(ret.decl.value) : IsBang(ret.decl.value[k].token)
           /\ \E k \in 1..Len(ret.decl.value) : IsImportant(ret.decl.value[k].token)

\* A nested declaration a : !important, with whitespace around the colon,
\* has been returned
C8_Witness ==
    /\ pstatus = "done"
    /\ ev.frame.nested
    /\ IsMarker(ValueTokens(ts.tokens, TRUE))
    /\ ValueStart(ts.tokens) = 5
    /\ ts.index = 6
    /\ ret.ok

\* The position in value of the ! of a marker that only whitespace follows,
\* 0 when the value does not end so
MarkerAt(value) ==
    IF \E k \in 1..(Len(value) - 1) :
          /\ IsBang(value[k]) /\ IsImportant(value[k + 1])
          /\ \A j \in (k + 2)..Len(value) : value[j].kind = "WHITESPACE_TOKEN"
    THEN CHOOSE k \in 1..(Len(value) - 1) :
          /\ IsBang(value[k]) /\ IsImportant(value[k + 1])
          /\ \A j \in (k + 2)..Len(value) : value[j].kind = "WHITESPACE_TOKEN"
    ELSE 0

\* C9: every Declaration returned with important = true has had the ! and
\* the important removed from its value and everything before the ! kept,
\* and no returned Declaration's value ends with whitespace, also when
\* whitespace follows the marker.
C9_MarkerIsRemoved ==
    (pstatus = "done" /\ ret.ok)
        => /\ ret.decl.value # <<>>
                => ret.decl.value[Len(ret.decl.value)].token.kind # "WHITESPACE_TOKEN"
           /\ ret.decl.important
                => /\ MarkerAt(ValueTokens(ts.tokens, ev.frame.nested)) # 0
                   /\ ret.decl.value =
                        AsPreservedTokens(WithoutTrailingWhitespace(
                            SubSeq(ValueTokens(ts.tokens, ev.frame.nested), 1,
                                   MarkerAt(ValueTokens(ts.tokens, ev.frame.nested)) - 1)))


---------------------------------------------------------------------------
(* ParseStylesheet: Tokenize, NewTokenStream, consume_stylesheet_contents. *)
(* input is the code points preprocess_input_stream has returned.          *)

\* ParseStylesheet up to the call of consume_stylesheet_contents, for r the
\* result of Tokenize
parse_tokens(r) ==
    /\ tokens' = r.tokens
    /\ index' = r.index
    /\ tstatus' = IF r.fatal THEN "fatal" ELSE "returned"
    /\ ts' = NewTokenStream(r.tokens)
    /\ stack' = IF r.fatal THEN <<>> ELSE <<stylesheet_contents_frame>>
    /\ ret' = <<>>
    /\ pstatus' = IF r.fatal THEN "fatal" ELSE "running"
    /\ ev' = [op |-> "ParseStylesheet"]

ParseStylesheet ==
    /\ pstatus = "start"
    /\ parse_tokens(Tokenize(input))
    /\ UNCHANGED <<input, decVars>>

\* Most words of a text of WordTexts
MaxWords == 4

\* a, space, {, }, :, ;, @m, f(, ) and --a
Words ==
    { <<97>>, <<32>>, <<123>>, <<125>>, <<58>>, <<59>>, <<64, 109>>,
      <<102, 40>>, <<41>>, <<45, 45, 97>> }

RECURSIVE Concat(_)
Concat(texts) == IF texts = <<>> THEN <<>> ELSE Head(texts) \o Concat(Tail(texts))

WordTexts == { Concat(ws) : ws \in SeqsUpTo(Words, MaxWords) }

\* Whitespace or none
W(b) == IF b THEN <<32>> ELSE <<>>

\* The qualified rules prelude { name: value; ... }: the preludes a, a and
\* a space, .a b and a space, a:b and a space
RulePreludes ==
    { <<97>>, <<97, 32>>, <<46, 97, 32, 98, 32>>, <<97, 58, 98, 32>> }

\* A declaration is its name, its value and where whitespace stands: before
\* the name, before the colon, after the colon, after the value
DeclNames == { <<99, 111, 108, 111, 114>>, <<98>> }
DeclValues == { <<114, 101, 100>>, <<114, 101, 100, 32, 98>> }
DeclSpacings ==
    { <<FALSE, FALSE, FALSE, FALSE>>, <<TRUE, FALSE, TRUE, FALSE>>,
      <<TRUE, TRUE, TRUE, TRUE>> }
DeclForms ==
    { [name |-> n, value |-> v, ws |-> s] :
        n \in DeclNames, v \in DeclValues, s \in DeclSpacings }

\* Most declarations of a rule of RuleFamily
MaxRuleDecls == 2

\* What may stand between the last declaration and the }: nothing, ; or ;
\* and a space
DeclEndings == { <<>>, <<59>>, <<59, 32>> }

DeclText(d) ==
    W(d.ws[1]) \o d.name \o W(d.ws[2]) \o <<58>> \o W(d.ws[3]) \o d.value \o W(d.ws[4])

RECURSIVE DeclsText(_)
DeclsText(ds) ==
    IF ds = <<>> THEN <<>>
    ELSE IF Len(ds) = 1 THEN DeclText(ds[1])
    ELSE DeclText(ds[1]) \o <<59>> \o DeclsText(Tail(ds))

\* The Declaration name: value, the whitespace around the value removed
DeclOf(d) ==
    [name |-> d.name, value |-> AsPreservedTokens(Tokenize(d.value).tokens),
     important |-> FALSE, original_text |-> <<>>]

DeclsOf(ds) == [k \in 1..Len(ds) |-> DeclOf(ds[k])]

QualifiedRuleOf(prelude, decls, children) ==
    [kind |-> "QUALIFIED_RULE", name |-> <<>>,
     prelude |-> AsPreservedTokens(Tokenize(prelude).tokens),
     decls |-> decls, children |-> children]

\* Each text prelude { name: value; ... } with the rule it is
RuleFamily ==
    { [text |-> p \o <<123>> \o DeclsText(ds) \o e \o <<125>>,
       rule |-> QualifiedRuleOf(p, DeclsOf(ds), <<>>)] :
        p \in RulePreludes, ds \in SeqsUpTo(DeclForms, MaxRuleDecls), e \in DeclEndings }

\* a { color: red; }
RuleText ==
    <<97, 32, 123, 32, 99, 111, 108, 111, 114, 58, 32, 114, 101, 100, 59,
       32, 125>>

\* The rules that hold an item b ... { ... }: the outer rules
\* @media (min-width: 2px) and a
OuterRules ==
    { [text |->
        <<64, 109, 101, 100, 105, 97, 32, 40, 109, 105, 110, 45, 119, 105,
           100, 116, 104, 58, 32, 50, 112, 120, 41, 32>>,
       rule |-> [kind |-> "AT_RULE", name |-> <<109, 101, 100, 105, 97>>,
                 prelude |-> << PreservedToken(Token("WHITESPACE_TOKEN")),
                                [NewSimpleBlock(Token("OPEN_PAREN_TOKEN")) EXCEPT
                                    !.value = AsPreservedTokens(Tokenize(
                                        <<109, 105, 110, 45, 119, 105, 100,
                                           116, 104, 58, 32, 50, 112, 120>>).tokens)],
                                PreservedToken(Token("WHITESPACE_TOKEN")) >>,
                 decls |-> <<>>, children |-> <<>>]],
      [text |-> <<97, 32>>, rule |-> QualifiedRuleOf(<<97, 32>>, <<>>, <<>>)] }

\* The item's prelude: b, b and a space, b c, b c:d and a space
ItemPreludes == { <<98>>, <<98, 32>>, <<98, 32, 99>>, <<98, 32, 99, 58, 100, 32>> }

CD == [name |-> <<99>>, value |-> <<100>>]

\* What stands in the item's block: nothing, c:d, or c : d ; with spaces
ItemBlocks ==
    { [text |-> <<>>, decls |-> <<>>],
      [text |-> <<99, 58, 100>>, decls |-> <<CD>>],
      [text |-> <<32, 99, 32, 58, 32, 100, 32, 59, 32>>, decls |-> <<CD>>] }

\* What stands before the item: nothing, a space, or c:d;
ItemsBefore ==
    { [text |-> <<>>, decls |-> <<>>],
      [text |-> <<32>>, decls |-> <<>>],
      [text |-> <<99, 58, 100, 59>>, decls |-> <<CD>>] }

\* What stands after the item: nothing, a space, c:d, or c:d; after a space
ItemsAfter ==
    { [text |-> <<>>, decls |-> <<>>],
      [text |-> <<32>>, decls |-> <<>>],
      [text |-> <<99, 58, 100>>, decls |-> <<CD>>],
      [text |-> <<32, 99, 58, 100, 59>>, decls |-> <<CD>>] }

\* Each text outer { before item { block } after } with the rule it is
NestedRuleFamily ==
    { [text |-> o.text \o <<123>> \o b.text \o p \o <<123>> \o i.text \o <<125>>
                    \o a.text \o <<125>>,
       rule |-> [o.rule EXCEPT
                    !.decls = DeclsOf(b.decls \o a.decls),
                    !.children = << QualifiedRuleOf(p, DeclsOf(i.decls), <<>>) >>]] :
        o \in OuterRules, b \in ItemsBefore, p \in ItemPreludes,
        i \in ItemBlocks, a \in ItemsAfter }

\* @media (min-width: 2px) { b{} }
NestedRuleText ==
    <<64, 109, 101, 100, 105, 97, 32, 40, 109, 105, 110, 45, 119, 105, 100,
       116, 104, 58, 32, 50, 112, 120, 41, 32, 123, 32, 98, 123, 125, 32,
       125>>

---------------------------------------------------------------------------
(* url( ... ), alone and as the value of the declaration in a{b: ... }     *)

\* Longest X of url(X), foo.png aside
MaxUrl == 2

\* url in four spellings
UrlNames == { <<117, 114, 108>>, <<85, 82, 76>>, <<85, 114, 108>>, <<117, 82, 108>> }

\* foo.png
UrlScenarioValue == <<102, 111, 111, 46, 112, 110, 103>>

\* X unquoted is over a . and /; X quoted may also hold ) and a space
UrlValues == SeqsUpTo({97, 46, 47}, MaxUrl) \cup { UrlScenarioValue }
QuotedValues == SeqsUpTo({97, 46, 47, 41, 32}, MaxUrl) \cup { UrlScenarioValue }

\* The whitespace before and after an unquoted X
UrlSpacesBefore == { <<>>, <<32>>, <<32, 32>> }
UrlSpacesAfter == { <<>>, <<32>> }

\* Each url(X) with its tokens and the component values they make
UnquotedUrls ==
    { [text |-> n \o <<40>> \o b \o x \o a \o <<41>>,
       tokens |-> << TokenV("URL_TOKEN", x) >>,
       values |-> << PreservedToken(TokenV("URL_TOKEN", x)) >>] :
        n \in UrlNames, x \in UrlValues, b \in UrlSpacesBefore, a \in UrlSpacesAfter }

\* Each url("X") and url('X') with its tokens and the component values they
\* make
QuotedUrls ==
    { [text |-> n \o <<40, q>> \o x \o <<q, 41>>,
       tokens |-> << TokenV("FUNCTION_TOKEN", n), TokenV("STRING_TOKEN", x),
                     Token("CLOSE_PAREN_TOKEN") >>,
       values |-> << [NewFunction(n) EXCEPT
                        !.value = << PreservedToken(TokenV("STRING_TOKEN", x)) >>] >>] :
        n \in UrlNames, x \in QuotedValues, q \in {QUOTATION_MARK_CHAR, APOSTROPHE_CHAR} }

UrlFamily == UnquotedUrls \cup QuotedUrls

\* a{b: text }
InDeclaration(text) == <<97, 123, 98, 58>> \o text \o <<125>>

\* The rule a{b: ... } with the value values
RuleWithValue(values) ==
    [kind |-> "QUALIFIED_RULE", name |-> <<>>,
     prelude |-> << PreservedToken(TokenV("IDENT_TOKEN", <<97>>)) >>,
     decls |-> << [name |-> <<98>>, value |-> values, important |-> FALSE,
                   original_text |-> <<>>] >>,
     children |-> <<>>]

UrlTexts ==
    { m.text : m \in UrlFamily } \cup { InDeclaration(m.text) : m \in UrlFamily }

---------------------------------------------------------------------------
(* Texts with a parse error, before the rule c{d:e} or at the end          *)

\* c{d:e}
FollowingRuleText == <<99, 123, 100, 58, 101, 125>>

\* Parse errors that end before the end of the text: a newline in a string,
\* a{b:"x newline }; an invalid escape, a{b:\ newline }; whitespace in a
\* url, a{b:url(x y)}; a nested qualified rule that meets its stop token,
\* a{b c;}; a } where a rule starts
ErrorsBefore ==
    { <<97, 123, 98, 58, 34, 120, 10, 125>>,
      <<97, 123, 98, 58, 92, 10, 125>>,
      <<97, 123, 98, 58, 117, 114, 108, 40, 120, 32, 121, 41, 125>>,
      <<97, 123, 98, 32, 99, 59, 125>>,
      <<125>> }

\* Parse errors at the end of the text: EOF in a string, a{b:"x; in a url,
\* a{b:url(x; in a block, a{b:c; in a rule, a; in a comment, /*x and /*/
ErrorsAtEnd ==
    { <<97, 123, 98, 58, 34, 120>>,
      <<97, 123, 98, 58, 117, 114, 108, 40, 120>>,
      <<97, 123, 98, 58, 99>>,
      <<97>>,
      <<47, 42, 120>>,
      <<47, 42, 47>> }

ErrorsFollowed == { e \o FollowingRuleText : e \in ErrorsBefore }

ErrorTexts ==
    ErrorsFollowed \cup ErrorsAtEnd \cup { FollowingRuleText \o e : e \in ErrorsAtEnd }

\* b{a:hover { color: red }}
BlockInValueText ==
    <<98, 123, 97, 58, 104, 111, 118, 101, 114, 32, 123, 32, 99, 111, 108,
      111, 114, 58, 32, 114, 101, 100, 32, 125, 125>>

\* a { b c; color: red }
MalformedItemText ==
    <<97, 32, 123, 32, 98, 32, 99, 59, 32, 99, 111, 108, 111, 114, 58, 32,
      114, 101, 100, 32, 125>>

InitParse ==
    /\ input \in WordTexts \cup { m.text : m \in RuleFamily }
                    \cup { m.text : m \in NestedRuleFamily } \cup UrlTexts \cup ErrorTexts
                    \cup { BlockInValueText, MalformedItemText }
    /\ index = -1 /\ tokens = <<>> /\ tstatus = "idle"
    /\ ts = NewTokenStream(<<>>) /\ stack = <<>> /\ ret = <<>>
    /\ pstatus = "start" /\ ev = [op |-> "none"]
    /\ IdleDec

NextParse ==
    \/ ParseStylesheet
    \/ StylesheetContentsStep
    \/ AtRuleStep
    \/ QualifiedRuleStep
    \/ BlockStep
    \/ BlockContentsStep
    \/ DeclarationStep
    \/ BadDeclarationRemnantsStep
    \/ ComponentValueListStep
    \/ ComponentValueStep
    \/ SimpleBlockStep
    \/ FunctionStep

SpecParse == InitParse /\ [][NextParse]_vars

\* C6: a top-level qualified rule prelude { name: value; ... } parses to
\* exactly one QualifiedRule: its prelude is the component values before the
\* { in order, the whitespace before the { included; its declarations are
\* one per name: value in source order, with the whitespace around the
\* value removed and important = false; it has no children.  For
\* a { color: red; } the prelude is [Ident a, Whitespace] and the
\* declarations are [color: [Ident red]].
C6_QualifiedRuleParsed ==
    pstatus = "done" =>
        /\ \A m \in RuleFamily : m.text = input => ret = <<m.rule>>
        /\ input = RuleText =>
              ret = << [kind |-> "QUALIFIED_RULE", name |-> <<>>,
                        prelude |-> << PreservedToken(TokenV("IDENT_TOKEN", <<97>>)),
                                       PreservedToken(Token("WHITESPACE_TOKEN")) >>,
                        decls |-> << [name |-> <<99, 111, 108, 111, 114>>,
                                      value |-> << PreservedToken(
                                                     TokenV("IDENT_TOKEN", <<114, 101, 100>>)) >>,
                                      important |-> FALSE, original_text |-> <<>>] >>,
                        children |-> <<>>] >>

\* a { color: red; } has been parsed
C6_Witness ==
    /\ pstatus = "done"
    /\ input = RuleText
    /\ Len(ret) = 1
    /\ Len(ret[1].decls) = 1
    /\ ret[1].decls[1].name = <<99, 111, 108, 111, 114>>

\* C7: inside a block, an item that starts with an Ident that no colon
\* follows, after optional whitespace, and that has a { } block is parsed as
\* a child QualifiedRule, never as a Declaration, and the child's prelude
\* holds all the item's tokens before its {.  For
\* @media (min-width: 2px) { b{} } the result is one AtRule media, the ( )
\* SimpleBlock in its prelude, with no declarations and one child
\* QualifiedRule of prelude [Ident b], no declarations and no children.
C7_NestedRuleParsed ==
    pstatus = "done" =>
        /\ \A m \in NestedRuleFamily : m.text = input => ret = <<m.rule>>
        /\ input = NestedRuleText =>
              /\ Len(ret) = 1
              /\ ret[1].kind = "AT_RULE"
              /\ ret[1].name = <<109, 101, 100, 105, 97>>
              /\ \E k \in 1..Len(ret[1].prelude) :
                    /\ ret[1].prelude[k].kind = "SIMPLE_BLOCK"
                    /\ ret[1].prelude[k].token.kind = "OPEN_PAREN_TOKEN"
              /\ ret[1].decls = <<>>
              /\ ret[1].children =
                    << [kind |-> "QUALIFIED_RULE", name |-> <<>>,
                        prelude |-> << PreservedToken(TokenV("IDENT_TOKEN", <<98>>)) >>,
                        decls |-> <<>>, children |-> <<>>] >>

\* @media (min-width: 2px) { b{} } has been parsed, the mark restored after
\* the declaration that b{} is not
C7_Witness ==
    /\ pstatus = "done"
    /\ input = NestedRuleText
    /\ Len(ret) = 1
    /\ Len(ret[1].children) = 1
    /\ ts.index = ts.length


---------------------------------------------------------------------------
(* Tokenize on one number                                                  *)

\* Most digits before and most after the decimal point
MaxDigits == 2

\* A number is its sign, its digits before and after the point (no point
\* without digits after it), its e or E with the exponent's sign and digits,
\* and what follows it: nothing, %, px or em
NumberSigns == { <<>>, <<43>>, <<45>> }
IntegerParts == SeqsUpTo({48, 49, 53}, MaxDigits)
FractionParts == SeqsUpTo({48, 53}, MaxDigits)
ExponentMarks == { <<101>>, <<69>> }
ExponentParts == { <<48>>, <<50>>, <<49, 48>> }
NumberSuffixes == { <<>>, <<37>>, <<112, 120>>, <<101, 109>> }

NoExponent == [e |-> <<>>, esign |-> <<>>, exp |-> <<>>]

Exponents ==
    { [e |-> e, esign |-> s, exp |-> x] :
        e \in ExponentMarks, s \in NumberSigns, x \in ExponentParts }
        \cup { NoExponent }

Numbers ==
    { [sign |-> s, int |-> i, frac |-> f, suffix |-> u] @@ x :
        s \in NumberSigns, i \in IntegerParts, f \in FractionParts,
        u \in NumberSuffixes, x \in Exponents }

\* 1e99999999999999999999, with and without a unit
LongExponent ==
    <<57, 57, 57, 57, 57, 57, 57, 57, 57, 57, 57, 57, 57, 57, 57, 57, 57, 57,
      57, 57>>

LongNumbers ==
    { [sign |-> <<>>, int |-> <<49>>, frac |-> <<>>, suffix |-> u,
       e |-> <<101>>, esign |-> <<>>, exp |-> LongExponent] :
        u \in NumberSuffixes }

NumberText(m) ==
    m.sign \o m.int \o (IF m.frac = <<>> THEN <<>> ELSE <<46>> \o m.frac)
        \o m.e \o m.esign \o m.exp \o m.suffix

\* ev holds the number the input is the text of
InitNumber ==
    /\ \E m \in { n \in Numbers \cup LongNumbers : n.int \o n.frac # <<>> } :
          /\ input = NumberText(m)
          /\ ev = [op |-> "number", number |-> m]
    /\ NewTokenizer
    /\ ts = NewTokenStream(<<>>) /\ stack = <<>> /\ ret = <<>> /\ pstatus = "idle"
    /\ IdleDec

NextNumber == TokenizeAppend \/ TokenizeReturn \/ TokenizeFatal

SpecNumber == InitNumber /\ [][NextNumber]_vars

\* The number a string of decimal digits (code points or digits) writes
RECURSIVE Decimal(_, _)
Decimal(s, zero) ==
    IF s = <<>> THEN 0 ELSE 10 * Decimal(SubSeq(s, 1, Len(s) - 1), zero) + s[Len(s)] - zero

\* v is the float64 for n * 10^q, negative if neg: a * 10^p is the value of
\* v's digits
IsValue(v, neg, n, q, a, p) ==
    /\ v.class = "finite"
    /\ IF n = 0 THEN v.digits = <<>>
       ELSE /\ v.neg = neg
            /\ p - q \in 0..9
            /\ a * 10^(p - q) = n

\* v is sign * (int + frac * 10^-digits) * 10^(expsign * exp) for the number m
IsValueOf(v, m) ==
    IsValue(v, m.sign = <<45>>, Decimal(m.int \o m.frac, 48),
            (IF m.esign = <<45>> THEN -1 ELSE 1) * Decimal(m.exp, 48) - Len(m.frac),
            Decimal(v.digits, 0), v.exp - Len(v.digits))

NumberKind(m) ==
    IF m.suffix = <<>> THEN "NUMBER_TOKEN"
    ELSE IF m.suffix = <<37>> THEN "PERCENTAGE_TOKEN"
    ELSE "DIMENSION_TOKEN"

\* C11: for an input that is one valid CSS number, Tokenize returns one
\* token, Number, or Percentage with a % after the number, or Dimension with
\* an ident sequence after it (its unit); the token's value is
\* sign * (int + frac * 10^-digits) * 10^(expsign * exp); the type flag of a
\* Number or Dimension is "integer" exactly when the number has neither a
\* fraction nor an exponent.
C11_NumberTokenized ==
    (ev.op = "number" /\ tstatus # "running")
        => /\ tstatus = "returned"
           /\ Len(tokens) = 1
           /\ tokens[1].kind = NumberKind(ev.number)
           /\ tokens[1].unit = (IF NumberKind(ev.number) = "DIMENSION_TOKEN"
                                THEN ev.number.suffix ELSE <<>>)
           /\ IsValueOf(tokens[1].numeric, ev.number)
           /\ tokens[1].kind # "PERCENTAGE_TOKEN"
                => (tokens[1].type_flag = "TYPE_INTEGER"
                        <=> (ev.number.frac = <<>> /\ ev.number.e = <<>>))


\* C12: an unquoted url(X) tokenizes to one Url token of value X, the url(,
\* the whitespace around X and the ) consumed; a quoted url("X") or url('X'),
\* url in any case, tokenizes to a Function token of that name, a String
\* token of value X and a CloseParen token, and the parser makes of them a
\* Function component value that holds the one String.
C12_UrlTokenized ==
    pstatus = "done" =>
        \A m \in UrlFamily :
            /\ input = m.text => tokens = m.tokens
            /\ input = InDeclaration(m.text) => ret = << RuleWithValue(m.values) >>

\* a{b:url("foo.png")} has been parsed, and its value is one Function that
\* holds one String
C12_Witness ==
    /\ pstatus = "done"
    /\ input = InDeclaration(<<117, 114, 108, 40, 34, 102, 111, 111, 46, 112, 110, 103, 34, 41>>)
    /\ Len(ret) = 1
    /\ ret[1].decls[1].value[1].kind = "FUNCTION"
    /\ ret[1].decls[1].value[1].value[1].token.kind = "STRING_TOKEN"


---------------------------------------------------------------------------
(* Tokenize on a string that nothing closes                                *)

\* Longest body of SpecOpenString, the body unterminated aside
MaxOpenBody == 4

\* Nothing, or x: and a space, before the opening quote
OpenStringPrefixes == { <<>>, <<120, 58, 32>> }

PrefixTokens(prefix) ==
    IF prefix = <<>> THEN <<>>
    ELSE << TokenV("IDENT_TOKEN", <<120>>), Token("COLON_TOKEN"),
            Token("WHITESPACE_TOKEN") >>

\* unterminated
UnterminatedBody == <<117, 110, 116, 101, 114, 109, 105, 110, 97, 116, 101, 100>>

\* ev holds the parts the input is made of: prefix, quote, body, and no
\* closing quote
InitOpenString ==
    /\ \E p \in OpenStringPrefixes, q \in {QUOTATION_MARK_CHAR, APOSTROPHE_CHAR},
          body \in SeqsUpTo(StringAlphabet, MaxOpenBody) \cup { UnterminatedBody } :
          /\ input = p \o <<q>> \o body
          /\ ev = [op |-> "string", prefix |-> p, quote |-> q, body |-> body]
    /\ NewTokenizer
    /\ ts = NewTokenStream(<<>>) /\ stack = <<>> /\ ret = <<>> /\ pstatus = "idle"
    /\ IdleDec

NextOpenString == TokenizeAppend \/ TokenizeReturn

SpecOpenString == InitOpenString /\ [][NextOpenString]_vars

\* How a string body with nothing after it ends, escapes resolved as in
\* Resolve: "quote" at a quote q outside an escape, "newline" at a newline
\* outside an escape, "eof" when the body runs out first
RECURSIVE StringEnd(_, _)
StringEnd(S, q) ==
    IF S = <<>> THEN "eof"
    ELSE IF Head(S) = q THEN "quote"
    ELSE IF Head(S) = LINE_FEED_CHAR THEN "newline"
    ELSE IF Head(S) # BACKWARD_SLASH_CHAR THEN StringEnd(Tail(S), q)
    ELSE IF Len(S) = 1 THEN "eof"
    ELSE IF is_hex_digit(S[2])
         THEN StringEnd(SubSeq(S, HexPrefix(Tail(S)) + 2 + HexSpace(S, HexPrefix(Tail(S))),
                               Len(S)), q)
    ELSE StringEnd(SubSeq(S, 3, Len(S)), q)

\* The token of the string that starts at the opening quote
OpenStringToken == tokens[Len(PrefixTokens(ev.prefix)) + 1]

\* C13: when the input ends inside a string, with no raw newline before the
\* end, the string's token is a String, not a BadString, whose value is the
\* code points gathered so far, and Tokenize returns; the string's token is
\* a BadString only when a newline that is not escaped is met in the string.
C13_StringEndsAtEOF ==
    ev.op = "string" =>
        /\ tstatus # "fatal"
        /\ tstatus = "returned" =>
              /\ StringEnd(ev.body, ev.quote) = "eof"
                    => tokens = PrefixTokens(ev.prefix)
                                    \o << TokenV("STRING_TOKEN", Resolve(ev.body)) >>
              /\ OpenStringToken.kind = "BAD_STRING_TOKEN"
                    <=> StringEnd(ev.body, ev.quote) = "newline"

\* x: "unterminated has been tokenized
C13_Witness ==
    /\ ev.op = "string"
    /\ tstatus = "returned"
    /\ ev.prefix # <<>>
    /\ ev.body = UnterminatedBody
    /\ OpenStringToken = TokenV("STRING_TOKEN", UnterminatedBody)


\* The rule c{d:e}, whatever comes before the c in its prelude
IsFollowingRule(rule) ==
    /\ rule.kind = "QUALIFIED_RULE"
    /\ rule.prelude # <<>>
    /\ rule.prelude[Len(rule.prelude)] = PreservedToken(TokenV("IDENT_TOKEN", <<99>>))
    /\ rule.decls = << [name |-> <<100>>,
                        value |-> << PreservedToken(TokenV("IDENT_TOKEN", <<101>>)) >>,
                        important |-> FALSE, original_text |-> <<>>] >>
    /\ rule.children = <<>>

\* C14: a recoverable parse error (EOF in a string, url, comment, block or
\* rule, an invalid escape, an unexpected }, a qualified rule that meets EOF
\* or its stop token) aborts nothing: tokenizing and parsing run to the end,
\* and the well-formed rule after the error is in the returned rule list.
C14_ParseErrorsRecovered ==
    input \in ErrorTexts =>
        /\ tstatus # "fatal" /\ pstatus # "fatal"
        /\ (pstatus = "done" /\ input \in ErrorsFollowed)
              => \E i \in 1..Len(ret) : IsFollowingRule(ret[i])


\* Whether a comment that starts after the first n code points of inp, or
\* later, is not closed, e being CommentsEnd(inp, n): over CommentAlphabet a
\* / and * that follow the end of a comment or a code point outside comments
\* always open a comment
RECURSIVE OpenComment(_, _)
OpenCommentFrom(inp, n, e) ==
    IF e = -1 THEN TRUE
    ELSE IF e > n THEN OpenComment(inp, e)
    ELSE OpenComment(inp, n + 1)
OpenComment(inp, n) ==
    IF n >= Len(inp) THEN FALSE ELSE OpenCommentFrom(inp, n, CommentsEnd(inp, n))

\* C15: a comment opened with /* and not closed before the end of the input
\* is fatal whatever precedes it: Tokenize does not return and no token list
\* is produced; /*/ is such a comment.
C15_OpenCommentFatal ==
    OpenComment(input, 0) => tstatus # "returned"


---------------------------------------------------------------------------
(* preprocess_input_stream: decode_byte_stream, then the filter loop        *)

\* The switch of the loop body: the code point appended for char
filtered_char(char) ==
    IF char = CARRIAGE_RETURN_CHAR THEN LINE_FEED_CHAR
    ELSE IF char = FORM_FEED_CHAR THEN LINE_FEED_CHAR
    ELSE IF char = NULL_CHAR THEN REPLACEMENT_CHAR
    ELSE char

\* A faulty skip, which leaves the LF after a CR in place
line_feed_kept(runes, i) == i

\* case CARRIAGE_RETURN_CHAR: i after the LF that follows the CR, if any
line_feed_skipped(runes, i) ==
    IF runes[i + 1] = CARRIAGE_RETURN_CHAR /\ i < Len(runes) - 1
          /\ runes[i + 2] = LINE_FEED_CHAR
    THEN i + 1 ELSE i

\* The loop over the decoded runes, from i on, inp being the code points
\* appended so far
RECURSIVE filter_loop(_, _, _)
filter_loop(runes, i, inp) ==
    IF i >= Len(runes) THEN inp
    ELSE filter_loop(runes, line_feed_skipped(runes, i) + 1,
                     Append(inp, filtered_char(runes[i + 1])))

\* preprocess_input_stream once decode_byte_stream has returned
Preprocess ==
    /\ dstatus = "returned"
    /\ input' = filter_loop(result, 0, <<>>)
    /\ dstatus' = "filtered"
    /\ UNCHANGED <<bytes, di, result, index, tokens, tstatus, parVars>>

\* Longest buffer preprocessed
MaxFilterBytes == 5

\* NUL, LF, FF, CR, a, and the bytes ED, A0, 80: ED 80 80 is U+D000, and
\* ED A0 80 would be the surrogate U+D800
FilterAlphabet == {0, 10, 12, 13, 97, 237, 160, 128}

InitPreprocess ==
    /\ bytes \in SeqsUpTo(FilterAlphabet, MaxFilterBytes)
    /\ di = 0 /\ result = <<>> /\ dstatus = "running"
    /\ IdleTok /\ IdlePar

NextPreprocess == DecodeStep \/ DecodeReturn \/ Preprocess

SpecPreprocess == InitPreprocess /\ [][NextPreprocess]_vars

\* The filtered code points of S: a CR-LF pair gives one LF, another CR and
\* an FF give an LF, a NUL gives U+FFFD, any other code point itself
RECURSIVE Filtered(_)
Filtered(S) ==
    IF S = <<>> THEN <<>>
    ELSE IF Len(S) >= 2 /\ S[1] = 13 /\ S[2] = 10
         THEN <<10>> \o Filtered(SubSeq(S, 3, Len(S)))
    ELSE IF Head(S) \in {13, 12} THEN <<10>> \o Filtered(Tail(S))
    ELSE IF Head(S) = 0 THEN <<65533>> \o Filtered(Tail(S))
    ELSE <<Head(S)>> \o Filtered(Tail(S))

\* The number of CR-LF pairs of S
PairsOf(S) == Cardinality({ k \in 1..(Len(S) - 1) : S[k] = 13 /\ S[k + 1] = 10 })

\* C16: preprocess_input_stream turns each CR-LF pair of the decoded code
\* points into one LF, each other CR and each FF into an LF, each NUL into
\* U+FFFD, and copies the rest in order; its output holds no CR, FF, NUL or
\* surrogate and is as long as the decoded code points less the CR-LF
\* pairs.
C16_InputFiltered ==
    dstatus = "filtered" =>
        /\ input = Filtered(result)
        /\ \A k \in 1..Len(input) :
              input[k] \notin {13, 12, 0} /\ ~IsSurrogate(input[k])
        /\ Len(input) = Len(result) - PairsOf(result)

\* A buffer with a CR-LF pair, another CR, an FF and a NUL has been filtered
C16_Witness ==
    /\ dstatus = "filtered"
    /\ PairsOf(result) = 1
    /\ result[Len(result)] = 13
    /\ \E k \in 1..Len(result) : result[k] = 12
    /\ \E k \in 1..Len(result) : result[k] = 0
    /\ Len(input) = 4


---------------------------------------------------------------------------
(* The declaration attempts of consume_block_contents                      *)

InBlockContents ==
    pstatus = "running" /\ stack # <<>> /\ Top.fn = "consume_block_contents"

\* The step that marks the input and calls consume_declaration
MarkStep ==
    /\ InBlockContents /\ Top.pc = "loop"
    /\ Len(stack') = Len(stack) + 1
    /\ stack'[Len(stack')].fn = "consume_declaration"

\* The steps that follow the return of consume_declaration
FailedStep == InBlockContents /\ Top.pc = "after_declaration" /\ ~ret.ok
SucceededStep == InBlockContents /\ Top.pc = "after_declaration" /\ ret.ok

\* The frames under the running call are as they were
CallersUnchanged ==
    \A k \in 1..(Len(stack) - 1) : k <= Len(stack') /\ stack'[k] = stack[k]

\* C17: in consume_block_contents a declaration attempt is a transaction.
\* The index is marked before consume_declaration, and no callee touches the
\* marks or the caller's decls and rules.  When the attempt fails,
\* restore_mark sets the index to the marked value, the mark is popped, decls
\* and rules are as before the attempt, and consume_qualified_rule(nested,
\* stop ;) starts from there.  When it succeeds, the mark is popped and the
\* index stays.  The index moves backward in no other step.
C17_AttemptsAreTransactions ==
    [][ /\ MarkStep =>
              /\ ts'.index = ts.index
              /\ ts'.marked_indexes = Append(ts.marked_indexes, ts.index)
              /\ stack'[Len(stack)].decls = Top.decls
              /\ stack'[Len(stack)].rules = Top.rules
        /\ (pstatus = "running" /\ ~InBlockContents) =>
              ts'.marked_indexes = ts.marked_indexes
        /\ pstatus = "running" => CallersUnchanged
        /\ FailedStep =>
              /\ ts.marked_indexes # <<>>
              /\ ts'.index = ts.marked_indexes[Len(ts.marked_indexes)]
              /\ ts'.marked_indexes
                    = SubSeq(ts.marked_indexes, 1, Len(ts.marked_indexes) - 1)
              /\ Len(stack') = Len(stack) + 1
              /\ stack'[Len(stack)].decls = Top.decls
              /\ stack'[Len(stack)].rules = Top.rules
              /\ stack'[Len(stack')] = qualified_rule_frame(TRUE, <<"SEMICOLON_TOKEN">>)
        /\ SucceededStep =>
              /\ ts.marked_indexes # <<>>
              /\ ts'.index = ts.index
              /\ ts'.marked_indexes
                    = SubSeq(ts.marked_indexes, 1, Len(ts.marked_indexes) - 1)
              /\ stack'[Len(stack)].decls = Append(Top.decls, ret.decl)
              /\ stack'[Len(stack)].rules = Top.rules
        /\ ts'.index < ts.index => FailedStep
      ]_vars

\* A declaration attempt has failed after reading tokens: the index is back
\* at another token than the one the stream was at, the mark is popped, and
\* consume_qualified_rule is about to start
C17_Witness ==
    /\ pstatus = "running"
    /\ ev.op = "consume_block_contents"
    /\ ev.frame.pc = "after_declaration"
    /\ stack # <<>>
    /\ Top = qualified_rule_frame(TRUE, <<"SEMICOLON_TOKEN">>)
    /\ ts.marked_indexes = <<>>
    /\ next_token(ts).kind = "IDENT_TOKEN"
    /\ ev.next.kind = "OPEN_CURLY_TOKEN"


\* Whether the component value v is a {}-block
IsCurlyBlock(v) == v.kind = "SIMPLE_BLOCK" /\ v.token.kind = "OPEN_CURLY_TOKEN"

IsWhitespace(v) == v.kind = "PRESERVED_TOKEN" /\ v.token.kind = "WHITESPACE_TOKEN"

\* Whether values holds a {}-block and another value that is not whitespace
BlockAndMore(values) ==
    \E j, k \in 1..Len(values) :
        j # k /\ IsCurlyBlock(values[j]) /\ ~IsWhitespace(values[k])

\* C18: consume_declaration returns nothing when the value holds a top-level
\* {}-block and another value that is not whitespace; so a:hover { color:
\* red } in the block of b is not kept as a declaration named a, and is
\* parsed as a nested qualified rule.
C18_BlockInValueRejected ==
    /\ (pstatus \in {"running", "done"} /\ ev.op = "consume_declaration"
            /\ ev.returned /\ ret.ok)
          => ~BlockAndMore(ret.decl.value)
    /\ (pstatus = "done" /\ input = BlockInValueText)
          => /\ Len(ret) = 1
             /\ ret[1].decls = <<>>
             /\ Len(ret[1].children) = 1
             /\ ret[1].children[1].kind = "QUALIFIED_RULE"


\* The tokens of value that are not whitespace
NonWhitespace(value) == SelectSeq(value, LAMBDA t : t.kind # "WHITESPACE_TOKEN")

\* Whether the last two of the tokens are a ! and an important
MarkerEnds(toks) ==
    /\ Len(toks) >= 2
    /\ IsBang(toks[Len(toks) - 1])
    /\ IsImportant(toks[Len(toks)])

\* C19: a returned Declaration has important = true exactly when the last
\* two values that are not whitespace are a Delim ! and then an Ident
\* important, in any case; whitespace between the two, or after them, does
\* not prevent the match (color: red ! important).
C19_ImportantIffMarkerEnds ==
    (pstatus = "done" /\ ret.ok)
        => (ret.decl.important
                <=> MarkerEnds(NonWhitespace(ValueTokens(ts.tokens, ev.frame.nested))))


---------------------------------------------------------------------------
(* consume_bad_declaration_remnants on its own                             *)

\* Longest token list of SpecRemnants
MaxRemnantTokens == 5

\* The ident a, ; } ( ) { and the function f(
RemnantAlphabet ==
    { TokenV("IDENT_TOKEN", <<97>>), Token("SEMICOLON_TOKEN"), Token("CLOSE_CURLY_TOKEN"),
      Token("OPEN_PAREN_TOKEN"), Token("CLOSE_PAREN_TOKEN"), Token("OPEN_CURLY_TOKEN"),
      TokenV("FUNCTION_TOKEN", <<102>>) }

InitRemnants ==
    /\ \E nested \in BOOLEAN, toks \in SeqsUpTo(RemnantAlphabet, MaxRemnantTokens) :
          StartParser(toks, bad_declaration_remnants_frame(nested))
    /\ IdleDec /\ IdleTok

NextRemnants ==
    \/ BadDeclarationRemnantsStep
    \/ ComponentValueStep
    \/ SimpleBlockStep
    \/ FunctionStep

SpecRemnants == InitRemnants /\ [][NextRemnants]_vars

\* The position of the token that closes the blocks whose closing brackets
\* are closers, innermost last, looking from position j; Len(toks) + 1 when
\* nothing closes the outermost
RECURSIVE BlockClose(_, _, _)
BlockClose(toks, j, closers) ==
    IF j > Len(toks) THEN Len(toks) + 1
    ELSE IF toks[j].kind = closers[Len(closers)]
         THEN IF Len(closers) = 1 THEN j
              ELSE BlockClose(toks, j + 1, SubSeq(closers, 1, Len(closers) - 1))
    ELSE IF toks[j].kind \in OpenerKinds \cup {"FUNCTION_TOKEN"}
         THEN BlockClose(toks, j + 1, Append(closers, Closer(toks[j].kind)))
    ELSE BlockClose(toks, j + 1, closers)

\* The positions from j on of the tokens that are in no block and no function
RECURSIVE TopLevel(_, _)
TopLevel(toks, j) ==
    IF j > Len(toks) THEN {}
    ELSE IF toks[j].kind \in OpenerKinds \cup {"FUNCTION_TOKEN"}
         THEN {j} \cup TopLevel(toks, BlockClose(toks, j + 1, <<Closer(toks[j].kind)>>) + 1)
    ELSE {j} \cup TopLevel(toks, j + 1)

\* The top-level positions of the tokens of the given kinds
Stoppers(toks, kinds) == { p \in TopLevel(toks, 1) : toks[p].kind \in kinds }

First(S) == CHOOSE p \in S : \A q \in S : p <= q

\* n tokens are consumed: all of them when S is empty, else those up to the
\* first position of S, that one left out when its kind is in kept
StopsAt(n, toks, S, kept) ==
    IF S = {} THEN n >= Len(toks)
    ELSE IF toks[First(S)].kind \in kept THEN n = First(S) - 1
    ELSE n = First(S)

RemnantsReturned ==
    pstatus = "done" /\ ev.op = "consume_bad_declaration_remnants"

\* C20, amended: consume_bad_declaration_remnants stops right after the
\* first top-level ; or at EOF; with nested it also stops before a top-level
\* }, which it leaves; without nested it discards each top-level } and goes
\* on to the first top-level ; or EOF.
C20_RemnantsStopAtSemicolon ==
    RemnantsReturned =>
        StopsAt(ts.index, ts.tokens,
                Stoppers(ts.tokens, IF ev.frame.nested
                                    THEN {"SEMICOLON_TOKEN", "CLOSE_CURLY_TOKEN"}
                                    ELSE {"SEMICOLON_TOKEN"}),
                {"CLOSE_CURLY_TOKEN"})

\* C20 as stated: consume_bad_declaration_remnants stops right after the
\* first top-level ; or at EOF; at a top-level } it stops, before it with
\* nested, and without nested after consuming it, every token after that }
\* left.
C20_RemnantsStopAtCurly ==
    RemnantsReturned =>
        StopsAt(ts.index, ts.tokens,
                Stoppers(ts.tokens, {"SEMICOLON_TOKEN", "CLOSE_CURLY_TOKEN"}),
                IF ev.frame.nested THEN {"CLOSE_CURLY_TOKEN"} ELSE {})

\* Without nested the remnants have been consumed through a block that holds
\* a ; and a top-level }, up to the top-level ; after them
C20_Witness ==
    /\ RemnantsReturned
    /\ ~ev.frame.nested
    /\ Len(ts.tokens) = 5
    /\ ts.tokens[1].kind = "OPEN_PAREN_TOKEN"
    /\ ts.tokens[2].kind = "SEMICOLON_TOKEN"
    /\ ts.tokens[3].kind = "CLOSE_PAREN_TOKEN"
    /\ ts.tokens[4].kind = "CLOSE_CURLY_TOKEN"
    /\ ts.tokens[5].kind = "SEMICOLON_TOKEN"
    /\ ts.index = 5


\* The values that are not whitespace
NonWhitespaceValues(values) == SelectSeq(values, LAMBDA v : ~IsWhitespace(v))

\* Whether the first two of the values are an ident that starts with -- and
\* a colon
CustomPropertyStarts(values) ==
    /\ Len(values) >= 2
    /\ values[1].kind = "PRESERVED_TOKEN"
    /\ values[1].token.kind = "IDENT_TOKEN"
    /\ HasPrefix(values[1].token.value, <<45, 45>>)
    /\ values[2].kind = "PRESERVED_TOKEN"
    /\ values[2].token.kind = "COLON_TOKEN"

\* consume_qualified_rule has returned after it met a {
QualifiedRuleReturnedAfterCurly ==
    /\ pstatus \in {"running", "done"}
    /\ ev.op = "consume_qualified_rule"
    /\ ev.returned
    /\ ev.frame.pc \in {"after_block", "after_discarded"}

\* C21: when consume_qualified_rule reaches a { and the first two values of
\* the prelude that are not whitespace are an ident that starts with -- and
\* a colon, whitespace before the ident or between the two ignored, it
\* returns nothing, and the {}-block is consumed: the stream is just after
\* its } or at the end.
C21_CustomPropertyRuleDiscarded ==
    (QualifiedRuleReturnedAfterCurly
        /\ CustomPropertyStarts(NonWhitespaceValues(ev.frame.rule.prelude)))
        => /\ ~ret.ok
           /\ \/ ts.index >= ts.length
              \/ ts.tokens[ts.index].kind = "CLOSE_CURLY_TOKEN"


\* Whether a is the first elements of b
IsPrefix(a, b) == Len(a) <= Len(b) /\ a = SubSeq(b, 1, Len(a))

\* C22: across the TokenStream operations, in any order, the index decreases
\* only in restore_mark() with a mark on the stack, and then to the mark
\* popped, a value mark() pushed when it was the index (nothing else adds to
\* the marks); next_token(), empty(), mark() and discard_mark() leave the
\* index, and so does discard_token() on an empty stream.
C22_IndexMovesBackOnlyToAMark ==
    [][ pstatus = "stream" =>
          /\ ts'.index < ts.index =>
                /\ ev'.op = "restore_mark"
                /\ ts.marked_indexes # <<>>
                /\ ts'.index = ts.marked_indexes[Len(ts.marked_indexes)]
          /\ ev'.op = "mark" =>
                ts'.marked_indexes = Append(ts.marked_indexes, ts.index)
          /\ ev'.op # "mark" => IsPrefix(ts'.marked_indexes, ts.marked_indexes)
          /\ ev'.op \in {"next_token", "empty", "mark", "discard_mark"} =>
                ts'.index = ts.index
          /\ (ev'.op = "discard_token" /\ empty(ts)) => ts'.index = ts.index
      ]_vars

\* restore_mark has moved the index back to the one mark, taken after the
\* stream had advanced
C22_Witness ==
    /\ pstatus = "stream"
    /\ ev.op = "restore_mark"
    /\ Len(ev.before.marked_indexes) = 1
    /\ ts.index < ev.before.index
    /\ ts.index > 0
    /\ ts.marked_indexes = <<>>


---------------------------------------------------------------------------
(* The ways consume_at_rule ends                                           *)

AtRuleLoop == Running("consume_at_rule") /\ Top.pc = "loop"

\* The running call returns value and leaves the stream as t
Returns(t, value) ==
    /\ Len(stack') = Len(stack) - 1
    /\ ts' = t
    /\ ret' = value

\* C23: consume_at_rule ends in one of three ways.  On ; or EOF it discards
\* that token and returns the rule with no declarations and no children.  On
\* } with nested it returns the rule and leaves the }, which the enclosing
\* consume_block_contents then meets.  On { it consumes the whole block and
\* returns the rule with the block's declarations and children.  Without
\* nested a } is appended to the prelude and the rule goes on.
C23_AtRuleEndings ==
    [][ /\ (AtRuleLoop /\ next_token(ts).kind \in {"SEMICOLON_TOKEN", "EOF_TOKEN"}) =>
              /\ Returns([ts EXCEPT !.index =
                                IF next_token(ts).kind = "EOF_TOKEN" THEN @ ELSE @ + 1],
                         [rule |-> Top.rule, ok |-> TRUE])
              /\ Top.rule.decls = <<>> /\ Top.rule.children = <<>>
        /\ (AtRuleLoop /\ next_token(ts).kind = "CLOSE_CURLY_TOKEN" /\ Top.nested) =>
              /\ Returns(ts, [rule |-> Top.rule, ok |-> TRUE])
              /\ Top.rule.decls = <<>> /\ Top.rule.children = <<>>
              /\ stack'[Len(stack')].fn = "consume_block_contents"
              /\ next_token(ts').kind = "CLOSE_CURLY_TOKEN"
        /\ (AtRuleLoop /\ next_token(ts).kind = "CLOSE_CURLY_TOKEN" /\ ~Top.nested) =>
              /\ Len(stack') = Len(stack)
              /\ ts' = [ts EXCEPT !.index = @ + 1]
              /\ stack'[Len(stack)] =
                    [Top EXCEPT !.rule.prelude =
                        Append(@, PreservedToken(Token("CLOSE_CURLY_TOKEN")))]
        /\ (AtRuleLoop /\ next_token(ts).kind = "OPEN_CURLY_TOKEN") =>
              /\ Len(stack') = Len(stack) + 1
              /\ stack'[Len(stack')].fn = "consume_block"
              /\ ts' = ts
        /\ (Running("consume_at_rule") /\ Top.pc = "after_block") =>
              /\ Returns(ts, [rule |-> [Top.rule EXCEPT !.decls = ret.decls,
                                                        !.children = ret.rules],
                              ok |-> TRUE])
              /\ empty(ts) \/ ts.tokens[ts.index].kind = "CLOSE_CURLY_TOKEN"
        /\ (Running("consume_at_rule") /\ Len(stack') < Len(stack)) =>
              \/ Top.pc = "after_block"
              \/ /\ Top.pc = "loop"
                 /\ \/ next_token(ts).kind \in {"SEMICOLON_TOKEN", "EOF_TOKEN"}
                    \/ next_token(ts).kind = "CLOSE_CURLY_TOKEN" /\ Top.nested
      ]_vars

\* A nested at-rule has returned at a }, which is still the next token, to
\* consume_block_contents
C23_Witness ==
    /\ pstatus = "running"
    /\ ev.op = "consume_at_rule"
    /\ ev.returned
    /\ ev.frame.nested
    /\ ev.frame.pc = "loop"
    /\ ev.next.kind = "CLOSE_CURLY_TOKEN"
    /\ next_token(ts).kind = "CLOSE_CURLY_TOKEN"
    /\ Top.fn = "consume_block_contents"
    /\ ret.ok


---------------------------------------------------------------------------
(* consume_qualified_rule returning nothing                                *)

QualifiedRuleLoop == Running("consume_qualified_rule") /\ Top.pc = "loop"

\* The qualified rule a { color: red }, with one declaration and no children
RuleWithColorRed ==
    [kind |-> "QUALIFIED_RULE", name |-> <<>>,
     prelude |-> << PreservedToken(TokenV("IDENT_TOKEN", <<97>>)),
                    PreservedToken(Token("WHITESPACE_TOKEN")) >>,
     decls |-> << [name |-> <<99, 111, 108, 111, 114>>,
                   value |-> << PreservedToken(TokenV("IDENT_TOKEN", <<114, 101, 100>>)) >>,
                   important |-> FALSE, original_text |-> <<>>] >>,
     children |-> <<>>]

\* C24: consume_qualified_rule returns nothing at EOF or at its stop token
\* before any {, and with nested also at a }, in each case leaving that
\* token in the stream; consume_block_contents, given nothing, keeps its
\* declarations and rules as they are and goes on with the block; and for
\* a { b c; color: red } the result is the one rule a with the one
\* declaration color: red and no children.
C24_NothingReturnedTokenLeft ==
    [][ /\ (QualifiedRuleLoop /\ \/ next_token(ts).kind = "EOF_TOKEN"
                                 \/ next_token(ts).kind = Top.stop_token
                                 \/ next_token(ts).kind = "CLOSE_CURLY_TOKEN" /\ Top.nested) =>
              /\ Len(stack') = Len(stack) - 1
              /\ ts' = ts
              /\ ~ret'.ok
        /\ (Running("consume_block_contents") /\ Top.pc = "after_rule" /\ ~ret.ok) =>
              /\ ts' = ts
              /\ stack' = [stack EXCEPT ![Len(stack)].pc = "loop"]
        /\ (input = MalformedItemText /\ pstatus' = "done") =>
              ret' = << RuleWithColorRed >>
      ]_vars

\* In a { b c; color: red } the qualified rule b c has returned nothing at
\* the ; which is still the next token
C24_Witness ==
    /\ input = MalformedItemText
    /\ pstatus = "running"
    /\ ev.op = "consume_qualified_rule"
    /\ ev.returned
    /\ ev.frame.nested
    /\ ev.next.kind = "SEMICOLON_TOKEN"
    /\ next_token(ts).kind = "SEMICOLON_TOKEN"
    /\ ~ret.ok
    /\ Len(ev.frame.rule.prelude) = 3


---------------------------------------------------------------------------
(* ConsumeToken at a U+002D HYPHEN-MINUS                                    *)

\* Longest input of SpecHyphen
MaxHyphenInput == 4

\* The characters - > 1 . a \ line feed / and *
HyphenAlphabet == {45, 62, 49, 46, 97, 92, 10, 47, 42}

InitHyphen ==
    /\ input \in SeqsUpTo(HyphenAlphabet, MaxHyphenInput)
    /\ NewTokenizer
    /\ IdleDec /\ IdlePar

NextHyphen == TokenizeAppend \/ TokenizeReturn \/ TokenizeFatal

SpecHyphen == InitHyphen /\ [][NextHyphen]_vars

\* The code point ConsumeToken reads, called at index idx with the comments
\* there closed: the one after the comments
ReadAt(inp, idx) == consume_comments(inp, idx).index + 1

\* The code point at position p of inp, EOF_CHAR outside it
At(inp, p) == IF p >= 0 /\ p < Len(inp) THEN inp[p + 1] ELSE EOF_CHAR

NumericKinds == {"NUMBER_TOKEN", "PERCENTAGE_TOKEN", "DIMENSION_TOKEN"}

IdentLikeKinds == {"IDENT_TOKEN", "FUNCTION_TOKEN", "URL_TOKEN", "BAD_URL_TOKEN"}

\* What ConsumeToken returns for a - at position p of inp followed by the
\* code points n and s, as the token tok and the index idx it leaves
HyphenOutcome(inp, p, n, s, tok, idx) ==
    IF is_digit(n) \/ (n = FULL_STOP_CHAR /\ is_digit(s))
    THEN tok.kind \in NumericKinds /\ idx > p
    ELSE IF n = HYPHEN_MINUS_CHAR /\ s = GREATER_THAN_CHAR
    THEN tok = Token("CDC_TOKEN") /\ idx = p + 2
    ELSE IF is_ident_start(n) \/ n = HYPHEN_MINUS_CHAR
            \/ (n = BACKWARD_SLASH_CHAR /\ s # LINE_FEED_CHAR)
    THEN tok.kind \in IdentLikeKinds /\ idx > p
    ELSE tok = Delim(HYPHEN_MINUS_CHAR) /\ idx = p

\* C25: when ConsumeToken reads a -, the result is a numeric token if the -
\* and the next two code points start a number; otherwise CDC if the next
\* two code points are ->; otherwise an ident-like token if the - and the
\* next two code points start an ident sequence; otherwise Delim -.  So -->
\* gives CDC, never Ident -- and then Delim >.
C25_HyphenPriority ==
    [][ (tstatus = "running" /\ ~consume_comments(input, index).fatal
            /\ At(input, ReadAt(input, index)) = HYPHEN_MINUS_CHAR) =>
          /\ tstatus' = "running"
          /\ tokens' = Append(tokens, tokens'[Len(tokens')])
          /\ HyphenOutcome(input, ReadAt(input, index),
                           At(input, ReadAt(input, index) + 1),
                           At(input, ReadAt(input, index) + 2),
                           tokens'[Len(tokens')], index')
      ]_vars

\* --> has been read as CDC, with the > consumed
C25_Witness ==
    /\ tstatus = "running"
    /\ tokens # <<>>
    /\ tokens[Len(tokens)] = Token("CDC_TOKEN")
    /\ index >= 2
    /\ SubSeq(input, index - 1, index + 1) = <<45, 45, 62>>


---------------------------------------------------------------------------
(* consume_string_token at a newline                                       *)

\* The number of code points of S, the input after an opening quote q, that
\* the string covers: up to and with the closing quote, up to and without a
\* newline outside an escape, or all of S
RECURSIVE StringSpan(_, _)
StringSpan(S, q) ==
    IF S = <<>> THEN 0
    ELSE IF Head(S) = q THEN 1
    ELSE IF Head(S) = LINE_FEED_CHAR THEN 0
    ELSE IF Head(S) # BACKWARD_SLASH_CHAR THEN 1 + StringSpan(Tail(S), q)
    ELSE IF Len(S) = 1 THEN 1
    ELSE IF is_hex_digit(S[2])
         THEN HexPrefix(Tail(S)) + 1 + HexSpace(S, HexPrefix(Tail(S)))
                 + StringSpan(SubSeq(S, HexPrefix(Tail(S)) + 2
                                            + HexSpace(S, HexPrefix(Tail(S))), Len(S)), q)
    ELSE 2 + StringSpan(SubSeq(S, 3, Len(S)), q)

\* The token of a string that ends in the way `end` after span code points
\* of the body S
StringTokenOf(S, end, span) ==
    IF end = "newline" THEN Token("BAD_STRING_TOKEN")
    ELSE TokenV("STRING_TOKEN",
                Resolve(SubSeq(S, 1, IF end = "quote" THEN span - 1 ELSE span)))

\* ConsumeToken is about to read the opening quote of SpecOpenString's input
AtOpeningQuote ==
    /\ ev.op = "string"
    /\ tstatus = "running"
    /\ index = Len(ev.prefix) - 1

LastIsBadString(toks) ==
    toks # <<>> /\ toks[Len(toks)].kind = "BAD_STRING_TOKEN"

\* C26: at a newline outside an escape consume_string_token returns a
\* BadString with no value and leaves the newline, so a Whitespace token
\* that starts at that newline follows every BadString; a backslash and a
\* newline in a string are both consumed and add nothing to the value, and a
\* backslash before EOF adds nothing to the value.
C26_BadStringLeavesNewline ==
    [][ /\ AtOpeningQuote =>
              /\ tokens' = Append(tokens,
                                  StringTokenOf(ev.body, StringEnd(ev.body, ev.quote),
                                                StringSpan(ev.body, ev.quote)))
              /\ index' = index + 1 + StringSpan(ev.body, ev.quote)
                              + IF StringEnd(ev.body, ev.quote) = "eof" THEN 1 ELSE 0
        /\ LastIsBadString(tokens') =>
              /\ tokens'[Len(tokens')] = Token("BAD_STRING_TOKEN")
              /\ tstatus' = "running"
              /\ next_rune(input, index') = LINE_FEED_CHAR
        /\ LastIsBadString(tokens) =>
              /\ tokens' = Append(tokens, Token("WHITESPACE_TOKEN"))
              /\ index' > index
      ]_vars

\* In "\ newline newline ... the backslash and the first newline are
\* consumed, the second newline ends the string as a BadString and the
\* Whitespace token after it starts at that newline
C26_Witness ==
    /\ ev.op = "string"
    /\ Len(ev.body) >= 3
    /\ SubSeq(ev.body, 1, 3) = <<92, 10, 10>>
    /\ Len(tokens) >= Len(PrefixTokens(ev.prefix)) + 2
    /\ OpenStringToken = Token("BAD_STRING_TOKEN")
    /\ tokens[Len(PrefixTokens(ev.prefix)) + 2] = Token("WHITESPACE_TOKEN")


---------------------------------------------------------------------------
(* The preconditions of the consume functions                              *)

\* The function fn is entered
Entered(fn) == pstatus = "running" /\ Top.fn = fn /\ Top.pc = "start"

\* C27: in a run of consume_stylesheet_contents on the tokens of Tokenize no
\* precondition fails: consume_at_rule is entered at an AtKeyword,
\* consume_block at a {, consume_simple_block at a {, [ or (,
\* consume_function at a Function token, mirror is called with an opening
\* bracket only, and no panic is reached.
C27_PreconditionsHold ==
    /\ pstatus # "panic"
    /\ Entered("consume_at_rule") => next_token(ts).kind = "AT_KEYWORD_TOKEN"
    /\ Entered("consume_block") => next_token(ts).kind = "OPEN_CURLY_TOKEN"
    /\ Entered("consume_simple_block") =>
          next_token(ts).kind \in {"OPEN_CURLY_TOKEN", "OPEN_SQUARE_TOKEN", "OPEN_PAREN_TOKEN"}
    /\ Entered("consume_function") => next_token(ts).kind = "FUNCTION_TOKEN"
    /\ pstatus = "running" =>
          \A i \in 1..Len(stack) :
              (stack[i].fn = "consume_simple_block" /\ stack[i].pc # "start") =>
                  stack[i].ending_token \in {"CLOSE_CURLY_TOKEN", "CLOSE_SQUARE_TOKEN",
                                             "CLOSE_PAREN_TOKEN"}

\* consume_function is entered, at a Function token, in a value inside the
\* block of a rule
C27_Witness ==
    /\ Entered("consume_function")
    /\ next_token(ts).kind = "FUNCTION_TOKEN"
    /\ \E i \in 1..Len(stack) : stack[i].fn = "consume_block"
    /\ \E i \in 1..Len(stack) : stack[i].fn = "consume_declaration"


---------------------------------------------------------------------------
(* The mark stack during a parse                                           *)

\* consume_block_contents is about to call restore_mark
AboutToRestore ==
    /\ Running("consume_block_contents")
    /\ Top.pc = "after_declaration"
    /\ ~ret.ok

\* consume_block_contents is at the head of its loop
AtBlockContentsLoop == Running("consume_block_contents") /\ Top.pc = "loop"

\* C28: during a run of consume_stylesheet_contents marked_indexes holds at
\* most one index, it is empty whenever a block is entered and at each turn
\* of the loop of consume_block_contents, restore_mark is never called on an
\* empty stack, and it is empty when consume_stylesheet_contents returns.
C28_AtMostOneMark ==
    /\ pstatus \in {"running", "done"} => Len(ts.marked_indexes) <= 1
    /\ (Entered("consume_block") \/ AtBlockContentsLoop) => ts.marked_indexes = <<>>
    /\ AboutToRestore => ts.marked_indexes # <<>>
    /\ pstatus = "done" => ts.marked_indexes = <<>>

\* A declaration attempt in a block has failed with its mark on the stack,
\* after an earlier declaration of the same block was taken
C28_Witness ==
    /\ AboutToRestore
    /\ Len(ts.marked_indexes) = 1
    /\ Top.decls # <<>>
    /\ ts.index > ts.marked_indexes[1]


---------------------------------------------------------------------------
(* Progress of the parser's loops                                          *)

LoopFunctions == {"consume_stylesheet_contents", "consume_block_contents"}

\* The running call is back at the head of its loop, a turn of it done
TurnDone ==
    /\ pstatus = "running"
    /\ Top.fn \in LoopFunctions
    /\ Top.pc = "loop"
    /\ ev.op = Top.fn
    /\ ~ev.returned

\* index is within the tokens, and a turn of a loop that is done has moved it on
IndexAdvanced ==
    /\ pstatus \in {"running", "done"} => (0 <= ts.index /\ ts.index <= ts.length)
    /\ TurnDone => ts.index > ev.starts[Len(stack)]

---------------------------------------------------------------------------
(* Tokenize's progress                                                     *)

\* Longest input of SpecTokens drawn from TokenAlphabet
MaxTokenInput == 4

\* The characters / * " \ line feed a - 1 ( # . < ! and @
TokenAlphabet == {47, 42, 34, 92, 10, 97, 45, 49, 40, 35, 46, 60, 33, 64}

\* /**//*/*/ : the comment /**/ and the comment /*/*/, both closed
ClosedCommentsText == <<47, 42, 42, 47, 47, 42, 47, 42, 47>>

\* 1e99999999999999999999
LongExponentText == <<49, 101>> \o [i \in 1..20 |-> 57]

InitTokens ==
    /\ input \in SeqsUpTo(TokenAlphabet, MaxTokenInput)
                    \cup { ClosedCommentsText, LongExponentText }
    /\ NewTokenizer
    /\ IdleDec /\ IdlePar

NextTokens == TokenizeAppend \/ TokenizeReturn \/ TokenizeFatal

SpecTokens == InitTokens /\ [][NextTokens]_vars

\* Each call of ConsumeToken that returns a token other than EOF leaves index
\* greater than before, index is never below -1, and EOF is not among the
\* tokens
TokenizeAdvances ==
    [][ /\ tstatus' = "running" => index' > index
        /\ index' >= -1
        /\ \A i \in 1..Len(tokens') : tokens'[i].kind # "EOF_TOKEN"
      ]_vars

\* C30: Tokenize returns on every input that does not end inside a comment:
\* each call of ConsumeToken that returns a token other than EOF leaves index
\* greater than before, index is never below -1, and the tokens returned
\* hold no EOF token.
C30_TokenizeTerminates ==
    [][ /\ tstatus' = "running" => index' > index
        /\ index' >= -1
        /\ \A i \in 1..Len(tokens') : tokens'[i].kind # "EOF_TOKEN"
        /\ ~OpenComment(input, 0) => tstatus' # "fatal"
      ]_vars

===========================================================================
